---- MODULE Spec2Model ----
(***************************************************************************)
(* A model of CoreRun, a one-shot Linux container runtime:                 *)
(*   - the IP allocator, the NetworkManager and the bridge / veth /        *)
(*     iptables driver (src/src/network),                                  *)
(*   - the orchestrator's fork + pipe handshake (src/src/setup/run.rs).    *)
(* The host (bridge device, veth pairs, iptables chains, sysctl files) is  *)
(* part of the state: every external command is modelled by its effect on  *)
(* the host and by its exit status, which depends on the host state and on *)
(* an injected fault set.                                                  *)
(***************************************************************************)
EXTENDS Integers, Sequences, FiniteSets, TLC

VARIABLES
    host,               \* system-wide state: bridge, veth pairs, iptables, sysctl
    mgr,                \* NETWORK_MANAGER lazy static: "uninit" | "ready" | "poisoned"
    networks,           \* NetworkManager.networks: name -> NetworkConfig
    container_networks, \* NetworkManager.container_networks: id -> ContainerNetwork
    nops,               \* number of manager calls made (bounds the component runs)
    lastCall,           \* the last manager call and its result
    alloc,              \* a stand-alone IpAllocator: its allocated set
    outstanding,        \* history: address -> times returned by allocate since its last release
    lastRet,            \* the last allocator call and its result
    runtimes,           \* concurrent corerun processes on one host: [pc, allocated, ip, runs]
    config,             \* ContainerConfig of the invocation, euid and the payload's exit status
    parent,             \* the corerun process: [pc, exit]
    child,              \* the process that runs run_container(_with_sync): [pc, ns, status]
    grand,              \* the process forked by enter_pid_namespace: [pc, status]
    pipe,               \* the sync pipe: [wParent, wChild, bytes]
    trace,              \* history of the run: what was done so far
    sup,                \* the process in execute_container_command: [pc, command_path, path, ..]
    CHILD_PID,          \* static CHILD_PID: AtomicI32
    payload,            \* the process forked by the supervisor: [state, status]
    termios,            \* flags set on the real stdin's terminal
    env,                \* what the supervisor is given: [sigchld, tty, command, fs]
    sigLog,             \* history: the signals delivered to the supervisor
    call,               \* a call of a parser of the command line: [fn, input, out]
    thr,                \* a thread inside a NetworkManager operation: [fn, pc, held, ns, ..]
    locks               \* threads calling into NETWORK_MANAGER: [owner, poisoned, thread, ..]

mgrVars   == <<host, mgr, networks, container_networks, nops, lastCall>>
allocVars == <<alloc, outstanding, lastRet, runtimes>>
procVars  == <<config, parent, child, grand, pipe, trace>>
supVars   == <<sup, CHILD_PID, payload, termios, env, sigLog>>
parseVars == <<call>>
stepVars  == <<thr, locks>>
vars      == <<mgrVars, allocVars, procVars, supVars, parseVars, stepVars>>

-----------------------------------------------------------------------------
(* Bounds of the model. *)

\* number of addresses of the modelled subnet (the program's /16 has 65536)
SubnetSize == 6
\* most manager calls in one run of the NetworkManager component
MaxOps == 2
\* most invocations of the runtime started one after the other in one terminal
MaxRuns == 2

(* Program constants. *)

\* subnet.iter().skip(2): the network address and the gateway are skipped
SkipCount == 2
\* scan_existing_ips probes .take(20) candidates
ScanTake == 20
\* gateway = subnet.iter().nth(1)
GatewayPos == 1

-----------------------------------------------------------------------------
(* Option<T> *)
None == <<>>
Some(x) == <<x>>

\* HashMap: a function on the set of its keys
EmptyMap == [x \in {} |-> x]
MapPut(m, k, v) == [x \in DOMAIN m \cup {k} |-> IF x = k THEN v ELSE m[x]]
MapRemove(m, k) == [x \in DOMAIN m \ {k} |-> m[x]]

Min(S) == CHOOSE x \in S : \A y \in S : x <= y

\* Ipv4Addr at position p of the default subnet, as the text handed to ip / iptables
Ip(p) == "172.17.0." \o ToString(p)

\* the subnet NetworkManager::new passes to create_network
DefaultSubnet == "172.17.0.0/16"
DefaultBridge == "corerun0"

Positions == 0 .. (SubnetSize - 1)

-----------------------------------------------------------------------------
(* IpAllocator *)

\* the candidates scan_existing_ips pings: subnet.iter().skip(2).take(20)
ScanCandidates == {p \in Positions : p >= SkipCount /\ p < SkipCount + ScanTake}

\* scan_existing_ips: every probed candidate that answers the ping is inserted
ScanExistingIps(allocated, live) == allocated \cup (live \cap ScanCandidates)

\* a mutant of Allocate: the contains() test is dropped, the first candidate is returned
AllocateNoContains(allocated, live) ==
    LET scanned == ScanExistingIps(allocated, live)
        cand == {p \in Positions : p >= SkipCount}
    IN  IF cand = {} THEN [allocated |-> scanned, ip |-> None]
        ELSE [allocated |-> scanned \cup {Min(cand)}, ip |-> Some(Min(cand))]

\* a mutant of Allocate: scan_existing_ips is not called
AllocateNoScan(allocated, live) ==
    LET free == {p \in Positions : p >= SkipCount /\ p \notin allocated}
    IN  IF free = {} THEN [allocated |-> allocated, ip |-> None]
        ELSE [allocated |-> allocated \cup {Min(free)}, ip |-> Some(Min(free))]

\* a mutant of Allocate: the error is raised while the last address is still free
AllocateGivesUpEarly(allocated, live) ==
    LET scanned == ScanExistingIps(allocated, live)
        free == {p \in Positions : p >= SkipCount /\ p \notin scanned}
    IN  IF free \subseteq {SubnetSize - 1} THEN [allocated |-> scanned, ip |-> None]
        ELSE [allocated |-> scanned \cup {Min(free)}, ip |-> Some(Min(free))]

\* IpAllocator::allocate: scan, then the first address from position 2 on that the
\* set does not contain; Err (ip = None) when there is none
Allocate(allocated, live) ==
    LET scanned == ScanExistingIps(allocated, live)
        free == {p \in Positions : p >= SkipCount /\ p \notin scanned}
    IN  IF free = {} THEN [allocated |-> scanned, ip |-> None]
        ELSE [allocated |-> scanned \cup {Min(free)}, ip |-> Some(Min(free))]

\* a mutant of Release: the set is cleared when the address is found
ReleaseClears(allocated, ip) == IF ip \in allocated THEN {} ELSE allocated
\* IpAllocator::release: HashSet::remove, no error for an absent address
Release(allocated, ip) == allocated \ {ip}

-----------------------------------------------------------------------------
(* The host as one invocation finds it, and the manager before first use. *)

EmptyChains == [PREROUTING |-> <<>>, OUTPUT |-> <<>>, POSTROUTING |-> <<>>, FORWARD |-> <<>>]

CleanHost ==
    [bridge |-> [exists |-> FALSE, addr |-> FALSE, up |-> FALSE],
     sysctl |-> {}, ipt |-> EmptyChains, veth |-> EmptyMap, lo |-> {}]

MgrIdle ==
    /\ mgr = "uninit"
    /\ networks = EmptyMap
    /\ container_networks = EmptyMap
    /\ nops = 0
    /\ lastCall = [op |-> "none", id |-> "", result |-> "ok", ip |-> None]

\* the terminals from which the runtime is invoked concurrently
Runtimes == {"r1", "r2"}

\* no invocation of the runtime is under way in a terminal
NoRuntime == [pc |-> "idle", allocated |-> {}, ip |-> None, runs |-> 0]

AllocIdle ==
    /\ alloc = {}
    /\ outstanding = [p \in Positions |-> 0]
    /\ lastRet = [op |-> "new", ip |-> None]
    /\ runtimes = [r \in Runtimes |-> NoRuntime]

\* NetworkMode
ModeBridge(name) == <<"Bridge", name>>
ModeHost == <<"Host">>
ModeNone == <<"None">>
ModeContainer(peer) == <<"Container", peer>>

\* the fds of a pipe nobody has created or written to
NoPipe == [wParent |-> FALSE, wChild |-> FALSE, bytes |-> 0]

\* nothing has happened yet in the run
NoTrace ==
    [setup |-> "none", byteWritten |-> FALSE, killSent |-> FALSE, execd |-> FALSE,
     cleanup |-> FALSE, passedBarrier |-> FALSE, volumes |-> "none", log |-> <<>>]

\* no process exists: the state of the process variables in the component runs
ProcIdle ==
    /\ config = [mode |-> ModeHost, ports |-> <<>>, root |-> TRUE, status |-> 0]
    /\ parent = [pc |-> "none", exit |-> None]
    /\ child = [pc |-> "none", ns |-> "host", status |-> None]
    /\ grand = [pc |-> "none", status |-> None]
    /\ pipe = NoPipe
    /\ trace = NoTrace

\* the terminal flags of a login terminal in its usual (cooked) state
SaneTermios ==
    {"ICANON", "ECHO", "ISIG", "IEXTEN", "IXON", "ICRNL", "BRKINT", "OPOST", "CS8"}

\* no supervisor exists: the state of the supervisor variables in the other runs
SupIdle ==
    /\ sup = [pc |-> "none", command_path |-> None, path |-> "none", handlers |-> FALSE,
              rawSet |-> FALSE, ret |-> None]
    /\ CHILD_PID = 0
    /\ payload = [state |-> "none", status |-> None]
    /\ termios = SaneTermios
    /\ env = [sigchld |-> "default", tty |-> TRUE, command |-> [abs |-> FALSE, parts |-> <<>>],
              fs |-> {}]
    /\ sigLog = <<>>

\* no parser has been called
NoCall == [fn |-> "none", input |-> <<>>, out |-> None]
ParseIdle == call = NoCall

\* no thread is inside a manager operation
NoThread ==
    [fn |-> "none", pc |-> "none", id |-> "", ports |-> <<>>, tgt |-> "host", ip |-> None,
     k |-> 0, entry |-> None, target |-> "", held |-> {}, ns |-> "host", saved |-> "host",
     enter |-> "none", block |-> "none", entered |-> None, log |-> <<>>,
     faulted |-> FALSE, ret |-> None]
\* no thread other than the main one exists
NoLocks == <<>>
StepIdle == thr = NoThread /\ locks = NoLocks

-----------------------------------------------------------------------------
(* External commands.  A fault set F holds pairs <<step, kind>>: the command *)
(* of that step is not spawned at all (kind "spawn": Command::output() is    *)
(* Err) or exits with a non-zero status for a reason outside the model (kind *)
(* "nonzero").  A command also exits non-zero when the host state does not   *)
(* allow it (pre is false).                                                  *)

Kinds == {"nonzero", "spawn"}

\* exit of one external command: "spawn" | "nonzero" | "ok"
Cmd(step, F, pre) ==
    IF <<step, "spawn">> \in F THEN "spawn"
    ELSE IF <<step, "nonzero">> \in F \/ ~pre THEN "nonzero"
    ELSE "ok"

\* the fault sets of one call: no command fails, or one command among steps does
FaultSets(steps) == {{}} \cup {{<<s, k>>} : s \in steps, k \in Kinds}

(* iptables chains are rule lists; a rule is what the command line spells. *)

Rule(t, proto, src, dst, iface, dport, to_ip, to_port) ==
    [t |-> t, proto |-> proto, src |-> src, dst |-> dst, iface |-> iface,
     dport |-> dport, to_ip |-> to_ip, to_port |-> to_port]

\* iptables -I <chain> 1 <rule>
IptInsert1(ipt, chain, r) == [ipt EXCEPT ![chain] = <<r>> \o @]
\* iptables -A <chain> <rule>
IptAppend(ipt, chain, r) == [ipt EXCEPT ![chain] = Append(@, r)]
IptHas(ipt, chain, r) == \E i \in 1 .. Len(ipt[chain]) : ipt[chain][i] = r
\* iptables -D <chain> <rule>: the first rule that matches is deleted
IptDelete(ipt, chain, r) ==
    IF ~IptHas(ipt, chain, r) THEN ipt
    ELSE LET s == ipt[chain]
             i == Min({j \in 1 .. Len(s) : s[j] = r})
         IN  [ipt EXCEPT ![chain] = SubSeq(s, 1, i - 1) \o SubSeq(s, i + 1, Len(s))]

\* Protocol -> "tcp" | "udp"
ProtoStr(protocol) == IF protocol = "TCP" THEN "tcp" ELSE "udp"

\* -p <proto> --dport <host_port> -j DNAT --to-destination <ip>:<container_port>
DnatPrerouting(port, ip) ==
    Rule("DNAT", ProtoStr(port.protocol), "", "", "", port.host_port,
         Ip(ip), port.container_port)
\* -p <proto> -d 127.0.0.1 --dport <host_port> -j DNAT --to-destination <ip>:<container_port>
DnatOutput(port, ip) ==
    Rule("DNAT", ProtoStr(port.protocol), "", "127.0.0.1", "", port.host_port,
         Ip(ip), port.container_port)
\* -p <proto> -d <ip> --dport <dport> -j ACCEPT
ForwardAccept(port, ip, dport) ==
    Rule("ACCEPT", ProtoStr(port.protocol), "", Ip(ip), "", dport, "", 0)

\* the step names of the commands issued for the k-th port of a call
PortStep(name, k) == name \o ToString(k)

\* iptables::add_port_forward for the k-th port
AddPortForward(h, port, ip, k, F) ==
    LET c1 == Cmd(PortStep("pre_ins", k), F, TRUE)
        h1 == IF c1 = "ok"
              THEN [h EXCEPT !.ipt = IptInsert1(@, "PREROUTING", DnatPrerouting(port, ip))]
              ELSE h
        c2 == Cmd(PortStep("out_ins", k), F, TRUE)
        h2 == IF c2 = "ok"
              THEN [h1 EXCEPT !.ipt = IptInsert1(@, "OUTPUT", DnatOutput(port, ip))]
              ELSE h1
        c3 == Cmd(PortStep("fwd_ins", k), F, TRUE)
        h3 == IF c3 = "ok"
              THEN [h2 EXCEPT !.ipt =
                       IptInsert1(@, "FORWARD", ForwardAccept(port, ip, port.host_port))]
              ELSE h2
    IN  IF c1 = "spawn" THEN [h |-> h, ok |-> FALSE]
        ELSE IF c2 = "spawn" THEN [h |-> h1, ok |-> FALSE]
        ELSE [h |-> h3, ok |-> TRUE]

\* iptables::remove_port_forward for the k-th port
RemovePortForward(h, port, ip, k, F) ==
    LET r1 == DnatPrerouting(port, ip)
        c1 == Cmd(PortStep("pre_del", k), F, IptHas(h.ipt, "PREROUTING", r1))
        h1 == IF c1 = "ok" THEN [h EXCEPT !.ipt = IptDelete(@, "PREROUTING", r1)] ELSE h
        r2 == DnatOutput(port, ip)
        c2 == Cmd(PortStep("out_del", k), F, IptHas(h1.ipt, "OUTPUT", r2))
        h2 == IF c2 = "ok" THEN [h1 EXCEPT !.ipt = IptDelete(@, "OUTPUT", r2)] ELSE h1
        r3 == ForwardAccept(port, ip, port.container_port)
        c3 == Cmd(PortStep("fwd_del", k), F, IptHas(h2.ipt, "FORWARD", r3))
        h3 == IF c3 = "ok" THEN [h2 EXCEPT !.ipt = IptDelete(@, "FORWARD", r3)] ELSE h2
    IN  IF c1 = "spawn" THEN [h |-> h, ok |-> FALSE]
        ELSE [h |-> h3, ok |-> TRUE]

-----------------------------------------------------------------------------
(* veth pairs.  host.veth maps a container id to the pair named after it     *)
(* (veth<id[10..17]> / vethc<id[10..17]>): the host end's master and link     *)
(* state, and the peer's namespace, name, address, link state and route.      *)

NewVeth ==
    [master |-> FALSE, up |-> FALSE, peerNs |-> "host", peerName |-> "vethc",
     peerAddr |-> None, peerUp |-> FALSE, route |-> FALSE]

HasVeth(h, id) == id \in DOMAIN h.veth

\* the pairs whose peer is the interface called eth0 inside namespace ns
Eth0In(h, ns) == {i \in DOMAIN h.veth : h.veth[i].peerNs = ns /\ h.veth[i].peerName = "eth0"}

\* veth::create_veth_pair: ip link add <host> type veth peer name <peer>
CreateVethPair(h, id, F) ==
    LET c == Cmd("veth_add", F, ~HasVeth(h, id))
    IN  [h |-> IF c = "ok" THEN [h EXCEPT !.veth = MapPut(@, id, NewVeth)] ELSE h,
         ok |-> c # "spawn"]

\* Bridge::attach_interface: ip link set <if> master <bridge>; ip link set <if> up
AttachInterface(h, id, F) ==
    LET c1 == Cmd("attach_master", F, HasVeth(h, id) /\ h.bridge.exists)
        h1 == IF c1 = "ok" THEN [h EXCEPT !.veth[id].master = TRUE] ELSE h
        c2 == Cmd("attach_up", F, HasVeth(h1, id))
        h2 == IF c2 = "ok" THEN [h1 EXCEPT !.veth[id].up = TRUE] ELSE h1
    IN  IF c1 = "spawn" THEN [h |-> h, ok |-> FALSE]
        ELSE [h |-> h2, ok |-> c2 # "spawn"]

\* veth::move_to_namespace: ip link set <peer> netns <pid>; tgt is the network
\* namespace of that pid now, "dead" when the process is gone
MoveToNamespace(h, id, tgt, F) ==
    LET pre == /\ HasVeth(h, id)
               /\ h.veth[id].peerNs = "host"
               /\ h.veth[id].peerName = "vethc"
               /\ tgt # "dead"
        c == Cmd("move", F, pre)
    IN  [h |-> IF c = "ok" THEN [h EXCEPT !.veth[id].peerNs = tgt] ELSE h,
         ok |-> c # "spawn"]

\* veth::delete_veth: ip link delete <host end>
DeleteVeth(h, id, F) ==
    LET c == Cmd("veth_del", F, HasVeth(h, id))
    IN  [h |-> IF c = "ok"
               THEN [h EXCEPT !.veth = MapRemove(@, id)]
               ELSE h,
         ok |-> c # "spawn"]

(* NetworkNamespace.  enter opens /proc/<pid>/ns/net, which fails when the process *)
(* is gone; the block's commands then run inside tgt.                              *)

\* NetworkNamespace::setup_loopback: ip link set lo up
SetupLoopback(h, tgt, F) ==
    IF tgt = "dead" THEN [h |-> h, ok |-> FALSE]
    ELSE LET c == Cmd("lo_up", F, TRUE)
         IN  [h |-> IF c = "ok" THEN [h EXCEPT !.lo = @ \cup {tgt}] ELSE h,
              ok |-> c # "spawn"]

\* the rename block of setup_bridge_network: ip link set <peer> name eth0, whose
\* result (of enter and of the command) is dropped by `let _ =`
RenameToEth0(h, id, tgt, F) ==
    IF tgt = "dead" THEN h
    ELSE LET pre == /\ HasVeth(h, id)
                    /\ h.veth[id].peerNs = tgt
                    /\ h.veth[id].peerName = "vethc"
                    /\ Eth0In(h, tgt) = {}
             c == Cmd("rename", F, pre)
         IN  IF c = "ok" THEN [h EXCEPT !.veth[id].peerName = "eth0"] ELSE h

\* NetworkNamespace::configure_interface("eth0", ip, prefix):
\* ip addr add <ip>/<prefix> dev eth0; ip link set eth0 up
ConfigureInterface(h, tgt, ip, F) ==
    IF tgt = "dead" THEN [h |-> h, ok |-> FALSE]
    ELSE LET e0 == Eth0In(h, tgt)
             c1 == Cmd("addr_add", F, e0 # {} /\ \A i \in e0 : h.veth[i].peerAddr = None)
             h1 == IF c1 = "ok"
                   THEN [h EXCEPT !.veth = [i \in DOMAIN h.veth |->
                            IF i \in e0 THEN [h.veth[i] EXCEPT !.peerAddr = Some(ip)]
                            ELSE h.veth[i]]]
                   ELSE h
             c2 == Cmd("link_up", F, e0 # {})
             h2 == IF c2 = "ok"
                   THEN [h1 EXCEPT !.veth = [i \in DOMAIN h1.veth |->
                            IF i \in e0 THEN [h1.veth[i] EXCEPT !.peerUp = TRUE]
                            ELSE h1.veth[i]]]
                   ELSE h1
         IN  IF c1 = "spawn" THEN [h |-> h, ok |-> FALSE]
             ELSE [h |-> h2, ok |-> c2 # "spawn"]

\* NetworkNamespace::add_default_route("eth0", gateway):
\* ip route add default via <gateway> dev eth0
AddDefaultRoute(h, tgt, F) ==
    IF tgt = "dead" THEN [h |-> h, ok |-> FALSE]
    ELSE LET e0 == Eth0In(h, tgt)
             pre == /\ e0 # {}
                    /\ \A i \in e0 : /\ h.veth[i].peerUp
                                     /\ h.veth[i].peerAddr # None
                                     /\ ~h.veth[i].route
             c == Cmd("route_add", F, pre)
         IN  [h |-> IF c = "ok"
                    THEN [h EXCEPT !.veth = [i \in DOMAIN h.veth |->
                             IF i \in e0 THEN [h.veth[i] EXCEPT !.route = TRUE]
                             ELSE h.veth[i]]]
                    ELSE h,
              ok |-> c # "spawn"]

-----------------------------------------------------------------------------
(* The bridge device and the NAT plane set up by create_network. *)

\* Bridge::create: the existence probe (ip link show), then ip link add
BridgeCreate(h, F) ==
    LET c0 == Cmd("br_show", F, h.bridge.exists)
        c1 == Cmd("br_add", F, ~h.bridge.exists)
    IN  IF c0 = "spawn" THEN [h |-> h, ok |-> FALSE]
        ELSE IF c0 = "ok" THEN [h |-> h, ok |-> TRUE]
        ELSE [h |-> IF c1 = "ok" THEN [h EXCEPT !.bridge.exists = TRUE] ELSE h,
              ok |-> c1 # "spawn"]

\* Bridge::set_ip: ip addr add <gateway>/<prefix> dev <bridge>
BridgeSetIp(h, F) ==
    LET c == Cmd("br_addr", F, h.bridge.exists /\ ~h.bridge.addr)
    IN  [h |-> IF c = "ok" THEN [h EXCEPT !.bridge.addr = TRUE] ELSE h, ok |-> c # "spawn"]

\* Bridge::up: ip link set <bridge> up
BridgeUp(h, F) ==
    LET c == Cmd("br_up", F, h.bridge.exists)
    IN  [h |-> IF c = "ok" THEN [h EXCEPT !.bridge.up = TRUE] ELSE h, ok |-> c # "spawn"]

\* iptables::enable_localhost_routing: two /proc/sys writes; the first is
\* .expect()ed (res "panic"), the second is mapped to an Err (res "err")
EnableLocalhostRouting(h, F) ==
    LET w1 == Cmd("w_localnet_all", F, TRUE)
        h1 == [h EXCEPT !.sysctl = @ \cup {"conf/all/route_localnet"}]
        w2 == Cmd("w_localnet_br", F, h.bridge.exists)
        h2 == [h1 EXCEPT !.sysctl = @ \cup {"conf/corerun0/route_localnet"}]
    IN  IF w1 # "ok" THEN [h |-> h, res |-> "panic"]
        ELSE IF w2 # "ok" THEN [h |-> h1, res |-> "err"]
        ELSE [h |-> h2, res |-> "ok"]

\* -s <subnet> ! -o <bridge> -j MASQUERADE
MasqRule(bridge, subnet) == Rule("MASQUERADE", "", subnet, "", "! -o " \o bridge, 0, "", 0)
\* -s 127.0.0.1 -d <subnet> -j MASQUERADE
HairpinRule(subnet) == Rule("MASQUERADE", "", "127.0.0.1", subnet, "", 0, "", 0)
\* -i <bridge> -j ACCEPT  and  -o <bridge> -j ACCEPT
ForwardIn(bridge) == Rule("ACCEPT", "", "", "", "-i " \o bridge, 0, "", 0)
ForwardOut(bridge) == Rule("ACCEPT", "", "", "", "-o " \o bridge, 0, "", 0)

\* one iptables command of setup_nat that adds rule r; how is IptInsert1 or IptAppend
NatStep(h, step, F, chain, r, append) ==
    LET c == Cmd(step, F, TRUE)
    IN  [h |-> IF c # "ok" THEN h
               ELSE IF append THEN [h EXCEPT !.ipt = IptAppend(@, chain, r)]
               ELSE [h EXCEPT !.ipt = IptInsert1(@, chain, r)],
         ok |-> c # "spawn"]

\* iptables::setup_nat
SetupNat(h, bridge, subnet, F) ==
    LET w  == Cmd("w_ip_forward", F, TRUE)
        s  == Cmd("sysctl", F, TRUE)
        h0 == IF w = "ok" \/ s = "ok" THEN [h EXCEPT !.sysctl = @ \cup {"ip_forward"}] ELSE h
        a1 == NatStep(h0, "masq_app", F, "POSTROUTING", MasqRule(bridge, subnet), TRUE)
        a2 == NatStep(a1.h, "fwd_in_ins", F, "FORWARD", ForwardIn(bridge), FALSE)
        a3 == NatStep(a2.h, "fwd_out_ins", F, "FORWARD", ForwardOut(bridge), FALSE)
        v  == Cmd("verify", F, TRUE)
        a4 == NatStep(a3.h, "hairpin_app", F, "POSTROUTING", HairpinRule(subnet), TRUE)
        a5 == NatStep(a4.h, "fwd_in_app", F, "FORWARD", ForwardIn(bridge), TRUE)
        a6 == NatStep(a5.h, "fwd_out_app", F, "FORWARD", ForwardOut(bridge), TRUE)
    IN  IF w # "ok" /\ s = "spawn" THEN [h |-> h, ok |-> FALSE]
        ELSE IF ~a1.ok THEN [h |-> h0, ok |-> FALSE]
        ELSE IF ~a2.ok THEN [h |-> a1.h, ok |-> FALSE]
        ELSE IF ~a3.ok THEN [h |-> a2.h, ok |-> FALSE]
        ELSE IF v = "spawn" THEN [h |-> a3.h, ok |-> FALSE]
        ELSE IF ~a4.ok THEN [h |-> a3.h, ok |-> FALSE]
        ELSE [h |-> a6.h, ok |-> TRUE]

\* iptables::cleanup_nat: iptables -D FORWARD -i/-o <bridge> -j ACCEPT, results dropped
CleanupNat(h, bridge, F) ==
    LET c1 == Cmd("fwd_in_del", F, IptHas(h.ipt, "FORWARD", ForwardIn(bridge)))
        h1 == IF c1 = "ok" THEN [h EXCEPT !.ipt = IptDelete(@, "FORWARD", ForwardIn(bridge))]
              ELSE h
        c2 == Cmd("fwd_out_del", F, IptHas(h1.ipt, "FORWARD", ForwardOut(bridge)))
    IN  IF c2 = "ok" THEN [h1 EXCEPT !.ipt = IptDelete(@, "FORWARD", ForwardOut(bridge))]
        ELSE h1

\* the steps of create_network a fault can hit
InitSteps ==
    {"br_show", "br_add", "br_addr", "br_up", "w_localnet_all", "w_localnet_br",
     "w_ip_forward", "sysctl", "masq_app", "fwd_in_ins", "fwd_out_ins", "verify",
     "hairpin_app", "fwd_in_app", "fwd_out_app"}

\* the NetworkConfig that create_network("bridge", "172.17.0.0/16") inserts
DefaultNetwork ==
    [name |-> "bridge", bridge |-> DefaultBridge, subnet |-> DefaultSubnet,
     gateway |-> GatewayPos, allocated |-> {}]

\* NetworkManager::create_network for the default network, as NetworkManager::new
\* calls it: res is "ok", "err" (new returns Err) or "panic"
CreateNetwork(h, F) ==
    LET b1 == BridgeCreate(h, F)
        b2 == BridgeSetIp(b1.h, F)
        b3 == BridgeUp(b2.h, F)
        l  == EnableLocalhostRouting(b3.h, F)
        n  == SetupNat(l.h, DefaultBridge, DefaultSubnet, F)
    IN  IF ~b1.ok THEN [h |-> b1.h, res |-> "err"]
        ELSE IF ~b2.ok THEN [h |-> b2.h, res |-> "err"]
        ELSE IF ~b3.ok THEN [h |-> b3.h, res |-> "err"]
        ELSE IF l.res # "ok" THEN [h |-> l.h, res |-> l.res]
        ELSE IF ~n.ok THEN [h |-> n.h, res |-> "err"]
        ELSE [h |-> n.h, res |-> "ok"]

-----------------------------------------------------------------------------
(* NetworkManager.  Maps are functions on the set of their keys.  Every      *)
(* operation is given the maps and the host and yields the new maps, the new *)
(* host and its result: "ok", "err" (an Err value) or "panic".               *)

\* the network namespace a container's child process unshares
NsOf(id) == "ns-" \o id

\* the for loop over ports of setup_bridge_network, from the k-th port on:
\* add_port_forward(...)? stops at the first Err
RECURSIVE AddPortForwards(_, _, _, _, _)
AddPortForwards(h, ports, ip, k, F) ==
    IF k > Len(ports) THEN [h |-> h, ok |-> TRUE]
    ELSE LET a == AddPortForward(h, ports[k], ip, k, F)
         IN  IF ~a.ok THEN a ELSE AddPortForwards(a.h, ports, ip, k + 1, F)

\* the for loop over ports of cleanup_container_network: every result is dropped
RECURSIVE RemovePortForwards(_, _, _, _, _)
RemovePortForwards(h, ports, ip, k, F) ==
    IF k > Len(ports) THEN h
    ELSE RemovePortForwards(RemovePortForward(h, ports[k], ip, k, F).h, ports, ip, k + 1, F)

MgrResult(nw, cn, h, res) ==
    [networks |-> nw, container_networks |-> cn, host |-> h, res |-> res]

\* NetworkManager::setup_bridge_network
SetupBridgeNetwork(nw, cn, h, id, tgt, network_name, ports, live, F) ==
    LET a   == Allocate(nw[network_name].allocated, live)
        nw1 == [nw EXCEPT ![network_name].allocated = a.allocated]
        ip  == a.ip[1]
        v1  == CreateVethPair(h, id, F)
        v2  == AttachInterface(v1.h, id, F)
        v3  == MoveToNamespace(v2.h, id, tgt, F)
        v4  == SetupLoopback(v3.h, tgt, F)
        h5  == RenameToEth0(v4.h, id, tgt, F)
        v6  == ConfigureInterface(h5, tgt, ip, F)
        v7  == AddDefaultRoute(v6.h, tgt, F)
        v8  == AddPortForwards(v7.h, ports, ip, 1, F)
        container_network ==
            [mode |-> ModeBridge(network_name), ip_address |-> Some(ip),
             gateway |-> Some(nw[network_name].gateway), veth_host |-> Some(id),
             veth_container |-> Some(id), ports |-> ports]
    IN  IF network_name \notin DOMAIN nw THEN MgrResult(nw, cn, h, "panic")
        ELSE IF a.ip = None THEN MgrResult(nw1, cn, h, "err")
        ELSE IF ~v1.ok THEN MgrResult(nw1, cn, v1.h, "err")
        ELSE IF ~v2.ok THEN MgrResult(nw1, cn, v2.h, "err")
        ELSE IF ~v3.ok THEN MgrResult(nw1, cn, v3.h, "err")
        ELSE IF ~v4.ok THEN MgrResult(nw1, cn, v4.h, "err")
        ELSE IF ~v6.ok THEN MgrResult(nw1, cn, v6.h, "err")
        ELSE IF ~v7.ok THEN MgrResult(nw1, cn, v7.h, "err")
        ELSE IF ~v8.ok THEN MgrResult(nw1, cn, v8.h, "err")
        ELSE MgrResult(nw1, MapPut(cn, id, container_network), v8.h, "ok")

NoNetwork(mode, ip, gw) ==
    [mode |-> mode, ip_address |-> ip, gateway |-> gw, veth_host |-> None,
     veth_container |-> None, ports |-> <<>>]

\* NetworkManager::setup_host_network
SetupHostNetwork(nw, cn, h, id) ==
    MgrResult(nw, MapPut(cn, id, NoNetwork(ModeHost, None, None)), h, "ok")

\* NetworkManager::setup_none_network
SetupNoneNetwork(nw, cn, h, id, tgt, F) ==
    LET l == SetupLoopback(h, tgt, F)
    IN  IF ~l.ok THEN MgrResult(nw, cn, l.h, "err")
        ELSE MgrResult(nw, MapPut(cn, id, NoNetwork(ModeNone, None, None)), l.h, "ok")

\* NetworkManager::setup_container_network_shared: get(target).unwrap() panics
\* when the target is not in the map
SetupContainerNetworkShared(nw, cn, h, id, target) ==
    IF target \notin DOMAIN cn THEN MgrResult(nw, cn, h, "panic")
    ELSE MgrResult(nw,
                   MapPut(cn, id, NoNetwork(ModeContainer(target), cn[target].ip_address,
                                            cn[target].gateway)),
                   h, "ok")

\* NetworkManager::setup_container_network: the dispatch on the mode
SetupContainerNetwork(nw, cn, h, id, tgt, mode, ports, live, F) ==
    IF mode[1] = "Bridge" THEN SetupBridgeNetwork(nw, cn, h, id, tgt, mode[2], ports, live, F)
    ELSE IF mode[1] = "Host" THEN SetupHostNetwork(nw, cn, h, id)
    ELSE IF mode[1] = "None" THEN SetupNoneNetwork(nw, cn, h, id, tgt, F)
    ELSE SetupContainerNetworkShared(nw, cn, h, id, mode[2])

\* a mutant of CleanupContainerNetwork: the entry is looked up with get() and stays
\* in the map
CleanupKeepsEntry(nw, cn, h, id, F) ==
    IF id \notin DOMAIN cn THEN MgrResult(nw, cn, h, "ok")
    ELSE LET network == cn[id]
         IN  IF network.mode[1] # "Bridge" THEN MgrResult(nw, cn, h, "ok")
             ELSE LET ip == network.ip_address[1]
                      h1 == RemovePortForwards(h, network.ports, ip, 1, F)
                      nw1 == [nw EXCEPT ![network.mode[2]].allocated = Release(@, ip)]
                  IN  MgrResult(nw1, cn, DeleteVeth(h1, network.veth_host[1], F).h, "ok")

\* NetworkManager::cleanup_container_network
CleanupContainerNetwork(nw, cn, h, id, F) ==
    IF id \notin DOMAIN cn THEN MgrResult(nw, cn, h, "ok")
    ELSE LET network == cn[id]
             cn1 == MapRemove(cn, id)
         IN  IF network.mode[1] # "Bridge" THEN MgrResult(nw, cn1, h, "ok")
             ELSE LET h1 == IF network.ip_address = None THEN h
                            ELSE RemovePortForwards(h, network.ports,
                                                    network.ip_address[1], 1, F)
                      nw1 == IF network.ip_address # None /\ network.mode[2] \in DOMAIN nw
                             THEN [nw EXCEPT ![network.mode[2]].allocated =
                                      Release(@, network.ip_address[1])]
                             ELSE nw
                      h2 == IF network.veth_host = None THEN h1
                            ELSE DeleteVeth(h1, network.veth_host[1], F).h
                  IN  MgrResult(nw1, cn1, h2, "ok")

-----------------------------------------------------------------------------
(* SpecMgr: one NetworkManager, constructed, then driven by any sequence of  *)
(* setup_container_network and cleanup_container_network calls.              *)

\* container ids of the component runs
Ids == {"c1", "c2"}

\* PortMapping values and the port lists a container is configured with
PortA == [host_port |-> 8080, container_port |-> 80, protocol |-> "TCP"]
PortB == [host_port |-> 5353, container_port |-> 53, protocol |-> "UDP"]
PortLists == {<<>>, <<PortA, PortB>>}

\* the addresses that answer a ping from the host: those of the veth peers that are
\* configured, up, and reachable through an attached host end and the bridge
LiveOnHost(h) ==
    {h.veth[i].peerAddr[1] :
        i \in {j \in DOMAIN h.veth : /\ h.veth[j].peerAddr # None
                                      /\ h.veth[j].peerUp
                                      /\ h.veth[j].peerNs # "host"
                                      /\ h.veth[j].master
                                      /\ h.veth[j].up
                                      /\ h.bridge.up
                                      /\ h.bridge.addr}}

\* the commands of setup_bridge_network a fault can hit
BridgeSteps(ports) ==
    {"veth_add", "attach_master", "attach_up", "move", "lo_up", "rename", "addr_add",
     "link_up", "route_add"}
    \cup {PortStep(n, k) : n \in {"pre_ins", "out_ins", "fwd_ins"}, k \in 1 .. Len(ports)}

\* the commands of cleanup_container_network a fault can hit
CleanupSteps(ports) ==
    {"veth_del"}
    \cup {PortStep(n, k) : n \in {"pre_del", "out_del", "fwd_del"}, k \in 1 .. Len(ports)}

Call(op, id, res, ip) == [op |-> op, id |-> id, result |-> res, ip |-> ip]

\* NetworkManager::new on a clean host, every command of create_network succeeding
InitMgr ==
    /\ AllocIdle
    /\ SupIdle
    /\ ParseIdle
    /\ StepIdle
    /\ ProcIdle
    /\ host = CreateNetwork(CleanHost, {}).h
    /\ mgr = "ready"
    /\ networks = MapPut(EmptyMap, "bridge", DefaultNetwork)
    /\ container_networks = EmptyMap
    /\ nops = 0
    /\ lastCall = Call("new", "", "ok", None)

\* the state a manager call r leaves
MgrApply(r, op, id) ==
    /\ host' = r.host
    /\ networks' = r.networks
    /\ container_networks' = r.container_networks
    /\ mgr' = IF r.res = "panic" THEN "poisoned" ELSE mgr
    /\ nops' = nops + 1
    /\ lastCall' = Call(op, id, r.res,
                        IF op = "cleanup" /\ id \in DOMAIN container_networks
                        THEN container_networks[id].ip_address
                        ELSE IF id \in DOMAIN r.container_networks
                        THEN r.container_networks[id].ip_address
                        ELSE None)
    /\ UNCHANGED <<allocVars, procVars, supVars, parseVars, stepVars>>

\* setup_container_network(id, pid, Bridge{"bridge"}, ports)
SetupBridgeCall ==
    /\ mgr = "ready"
    /\ nops < MaxOps
    /\ \E id \in Ids, ports \in PortLists :
          \E tgt \in {"dead", NsOf(id)}, F \in FaultSets(BridgeSteps(ports)) :
             MgrApply(SetupContainerNetwork(networks, container_networks, host, id, tgt,
                                            ModeBridge("bridge"), ports, LiveOnHost(host), F),
                      "setup", id)

\* setup_container_network(id, pid, Host, ports)
SetupHostCall ==
    /\ mgr = "ready"
    /\ nops < MaxOps
    /\ \E id \in Ids :
          MgrApply(SetupContainerNetwork(networks, container_networks, host, id, NsOf(id),
                                         ModeHost, <<>>, {}, {}),
                   "setup", id)

\* setup_container_network(id, pid, None, ports)
SetupNoneCall ==
    /\ mgr = "ready"
    /\ nops < MaxOps
    /\ \E id \in Ids :
          \E tgt \in {"dead", NsOf(id)}, F \in FaultSets({"lo_up"}) :
             MgrApply(SetupContainerNetwork(networks, container_networks, host, id, tgt,
                                            ModeNone, <<>>, {}, F),
                      "setup", id)

\* setup_container_network(id, pid, Container{peer}, ports)
SetupSharedCall ==
    /\ mgr = "ready"
    /\ nops < MaxOps
    /\ \E id \in Ids, peer \in Ids :
          MgrApply(SetupContainerNetwork(networks, container_networks, host, id, NsOf(id),
                                         ModeContainer(peer), <<>>, {}, {}),
                   "setup", id)

\* cleanup_container_network(id)
CleanupCall ==
    /\ mgr = "ready"
    /\ nops < MaxOps
    /\ \E id \in Ids :
          \E F \in FaultSets(CleanupSteps(IF id \in DOMAIN container_networks
                                          THEN container_networks[id].ports ELSE <<>>)) :
             MgrApply(CleanupContainerNetwork(networks, container_networks, host, id, F),
                      "cleanup", id)

\* any call after a panic: the manager's mutex is poisoned and lock().unwrap() panics
PoisonedCall ==
    /\ mgr = "poisoned"
    /\ nops < MaxOps
    /\ \E id \in Ids :
          MgrApply(MgrResult(networks, container_networks, host, "panic"), "call", id)

NextMgr ==
    \/ SetupBridgeCall
    \/ SetupHostCall
    \/ SetupNoneCall
    \/ SetupSharedCall
    \/ CleanupCall
    \/ PoisonedCall

SpecMgr == InitMgr /\ [][NextMgr]_vars

\* the number of DNAT rules of a nat chain that name address ip as their destination
DnatCount(chain, ip) ==
    Cardinality({i \in 1 .. Len(host.ipt[chain]) :
                    /\ host.ipt[chain][i].t = "DNAT"
                    /\ host.ipt[chain][i].to_ip = Ip(ip)})

\* the containers recorded in the manager with a bridge mode
BridgeEntries == {id \in DOMAIN container_networks : container_networks[id].mode[1] = "Bridge"}

\* C8: port-forward mirror. For every container recorded with bridge mode and N port
\* mappings there are exactly N PREROUTING DNAT rules and N OUTPUT DNAT rules naming
\* its IP, and right after cleanup_container_network of a container that held an IP
\* there is no such rule naming that IP.
C8_PortForwardMirror ==
    /\ \A id \in BridgeEntries :
          LET e == container_networks[id]
          IN  /\ DnatCount("PREROUTING", e.ip_address[1]) = Len(e.ports)
              /\ DnatCount("OUTPUT", e.ip_address[1]) = Len(e.ports)
    /\ (lastCall.op = "cleanup" /\ lastCall.ip # None) =>
          /\ DnatCount("PREROUTING", lastCall.ip[1]) = 0
          /\ DnatCount("OUTPUT", lastCall.ip[1]) = 0

\* C9 as stated: every entry of the container map is a bridge entry whose ip_address
\* is in its network's allocator set, or a non-bridge entry (Host, None,
\* Container{peer}) whose ip_address is None.
C9_MapInvariant ==
    \A id \in DOMAIN container_networks :
        LET e == container_networks[id]
        IN  IF e.mode[1] = "Bridge"
            THEN /\ e.ip_address # None
                 /\ e.mode[2] \in DOMAIN networks
                 /\ e.ip_address[1] \in networks[e.mode[2]].allocated
            ELSE e.ip_address = None

\* the entries of the map with mode Host or None carry no address, the bridge entries
\* carry an address of their network's allocator set
C9_BridgeHostNone ==
    \A id \in DOMAIN container_networks :
        LET e == container_networks[id]
        IN  /\ e.mode[1] = "Bridge" =>
                  /\ e.ip_address # None
                  /\ e.mode[2] \in DOMAIN networks
                  /\ e.ip_address[1] \in networks[e.mode[2]].allocated
            /\ e.mode[1] \in {"Host", "None"} => e.ip_address = None

\* a step that writes a Container{peer} entry writes it with the ip_address the peer's
\* entry holds at that moment
C9_SharedCopiesPeer ==
    \A id \in DOMAIN container_networks' :
        LET e == container_networks'[id]
        IN  (/\ e.mode[1] = "Container"
             /\ (id \notin DOMAIN container_networks \/ container_networks[id] # e))
            => /\ e.mode[2] \in DOMAIN container_networks
               /\ e.ip_address = container_networks[e.mode[2]].ip_address

\* C9, amended: bridge entries carry an address of their network's allocator set, Host
\* and None entries carry none, and a Container{peer} entry carries whatever the peer's
\* entry carried when it was set up (an address when the peer is a bridge container).
C9_Amended == []C9_BridgeHostNone /\ [][C9_SharedCopiesPeer]_vars

\* C9 witness: a bridge container holds address 2 and a Container{peer} entry that
\* names it was set up, with the address copied
C9_Witness ==
    /\ DOMAIN container_networks = {"c1", "c2"}
    /\ container_networks["c1"].mode = ModeBridge("bridge")
    /\ container_networks["c1"].ip_address = Some(2)
    /\ 2 \in networks["bridge"].allocated
    /\ container_networks["c2"].mode = ModeContainer("c1")
    /\ container_networks["c2"].ip_address = Some(2)
    /\ lastCall.op = "setup" /\ lastCall.id = "c2"

\* C10: every veth host endpoint on the host belongs to exactly one entry of the
\* container map: none exists for a container absent from the map, also after a
\* failed setup and after cleanup.
C10_VethHasEntry ==
    \A i \in DOMAIN host.veth :
        /\ i \in DOMAIN container_networks
        /\ container_networks[i].veth_host = Some(i)
        /\ \A j \in DOMAIN container_networks :
              container_networks[j].veth_host = Some(i) => j = i

-----------------------------------------------------------------------------
(* SpecAlloc: one IpAllocator driven by any sequence of allocate and release. *)

\* IpAllocator::new: an empty set; the allocator alone does not touch the host
InitAlloc ==
    /\ AllocIdle
    /\ SupIdle
    /\ ParseIdle
    /\ StepIdle
    /\ MgrIdle
    /\ ProcIdle
    /\ host = CleanHost

\* a call of allocate(); live is the set of addresses that answer a ping right now
AllocateCall ==
    \E live \in SUBSET Positions :
        LET r == Allocate(alloc, live)
        IN  /\ alloc' = r.allocated
            /\ outstanding' = IF r.ip = None THEN outstanding
                              ELSE [outstanding EXCEPT ![r.ip[1]] = @ + 1]
            /\ lastRet' = [op |-> "allocate", ip |-> r.ip]
            /\ UNCHANGED <<mgrVars, procVars, supVars, parseVars, stepVars, runtimes>>

\* a call of release(ip) with any address of the subnet
ReleaseCall ==
    \E ip \in Positions :
        /\ alloc' = Release(alloc, ip)
        /\ outstanding' = [outstanding EXCEPT ![ip] = 0]
        /\ lastRet' = [op |-> "release", ip |-> Some(ip)]
        /\ UNCHANGED <<mgrVars, procVars, supVars, parseVars, stepVars, runtimes>>

NextAlloc == AllocateCall \/ ReleaseCall

SpecAlloc == InitAlloc /\ [][NextAlloc]_vars

\* C5: IP uniqueness. No address is handed out by allocate twice without a release of
\* that address in between, and allocate never hands out the network address
\* (position 0) or the gateway (position 1).
C5_IpUniqueness ==
    /\ \A p \in Positions : outstanding[p] <= 1
    /\ outstanding[0] = 0
    /\ outstanding[GatewayPos] = 0
    /\ (lastRet.op = "allocate" /\ lastRet.ip # None) =>
           (lastRet.ip[1] >= SkipCount /\ lastRet.ip[1] \in alloc)

\* C5 witness: address 2 was handed out again (after a release) while address 3 is held
C5_Witness ==
    /\ lastRet = [op |-> "allocate", ip |-> Some(2)]
    /\ outstanding[2] = 1
    /\ outstanding[3] = 1

-----------------------------------------------------------------------------
(* Spec: one invocation of corerun on a clean host.  The corerun process      *)
(* (parent), the process that runs run_container_with_sync (child) and the    *)
(* process forked by enter_pid_namespace (grand) take their steps in any      *)
(* order the kernel may schedule them.  In Host mode there is no fork in run: *)
(* child then stands for the corerun process itself inside run_container.     *)

\* the container id of the invocation, and the id a Container{peer} mode names
Id0 == "c1"
PeerId == "c2"

\* the invocations: network mode and ports from the command line, whether euid is 0,
\* and the exit status of the payload command
Configs ==
    [mode : {ModeBridge("bridge")}, ports : PortLists, root : BOOLEAN, status : {0, 1}]
    \cup [mode : {ModeHost, ModeNone, ModeContainer(PeerId)}, ports : {<<>>},
          root : BOOLEAN, status : {0, 1}]

\* isolate_net = !matches!(config.network_mode, NetworkMode::Host)
IsolateNet == config.mode # ModeHost

Init ==
    /\ AllocIdle
    /\ SupIdle
    /\ ParseIdle
    /\ StepIdle
    /\ MgrIdle
    /\ host = CleanHost
    /\ config \in Configs
    /\ parent = [pc |-> "start", exit |-> None]
    /\ child = [pc |-> "none", ns |-> "host", status |-> None]
    /\ grand = [pc |-> "none", status |-> None]
    /\ pipe = NoPipe
    /\ trace = NoTrace

\* the corerun process ends with exit code c; the kernel closes its fds
ParentExits(c) ==
    /\ parent' = [pc |-> "done", exit |-> Some(c)]
    /\ pipe' = [pipe EXCEPT !.wParent = FALSE]

\* the child (or grand) process ends with exit code c
Exited(c) == [pc |-> "exited", status |-> Some(c)]

ChildAlive == child.pc \notin {"none", "exited", "killed"}

\* a root check that lets every user through
RootCheckSkipped(c) == FALSE
\* if !Uid::current().is_root() { return Err(ContainerError::RootRequired) }
RootRequired(c) == ~c.root

\* run, up to the fork: the root check, then pipe() and fork() when the network is
\* isolated, run_container in this process otherwise
ParentStart ==
    /\ parent.pc = "start"
    /\ UNCHANGED <<mgrVars, allocVars, supVars, parseVars, stepVars, config, grand, trace>>
    /\ IF RootRequired(config)
       THEN ParentExits(1) /\ UNCHANGED child
       ELSE IF ~IsolateNet
       THEN /\ parent' = [parent EXCEPT !.pc = "host_run"]
            /\ child' = [child EXCEPT !.pc = "prepare"]
            /\ UNCHANGED pipe
       ELSE \E r \in {"ok", "pipe_err", "fork_err"} :
               IF r = "ok"
               THEN /\ parent' = [parent EXCEPT !.pc = "sleep"]
                    /\ child' = [child EXCEPT !.pc = "close_w"]
                    /\ pipe' = [wParent |-> TRUE, wChild |-> TRUE, bytes |-> 0]
               ELSE /\ ParentExits(IF r = "pipe_err" THEN 101 ELSE 1)
                    /\ UNCHANGED child

\* parent: close(read_raw), sleep 300 ms; the sleep orders nothing, the child can be at
\* any of its steps when it ends
ParentSleep ==
    /\ parent.pc = "sleep"
    /\ parent' = [parent EXCEPT !.pc = "setup"]
    /\ UNCHANGED <<mgrVars, allocVars, supVars, parseVars, stepVars, config, child, grand, pipe, trace>>

\* the commands of one setup_container_network_parent call a fault can hit
SetupSteps ==
    InitSteps \cup (IF config.mode[1] = "Bridge" THEN BridgeSteps(config.ports)
                    ELSE IF config.mode[1] = "None" THEN {"lo_up"}
                    ELSE {})

\* the network namespace /proc/<child>/ns/net names now; "dead" once the child is gone
ChildNetns == IF ChildAlive THEN child.ns ELSE "dead"

\* parent: setup_container_network_parent.  The first use of NETWORK_MANAGER runs
\* NetworkManager::new().expect(..), then setup_container_network is called on it.
\* A panic ends the process with code 101; an Err leads to the failure branch.
ParentSetupNetwork ==
    /\ parent.pc = "setup"
    /\ \E F \in FaultSets(SetupSteps) :
          LET new == CreateNetwork(host, F)
              r   == SetupContainerNetwork(MapPut(EmptyMap, "bridge", DefaultNetwork),
                                           container_networks, new.h, Id0, ChildNetns,
                                           config.mode, config.ports, LiveOnHost(new.h), F)
          IN  IF new.res # "ok"
              THEN /\ host' = new.h
                   /\ mgr' = "poisoned"
                   /\ lastCall' = Call("new", "", new.res, None)
                   /\ trace' = [trace EXCEPT !.setup = "panic"]
                   /\ ParentExits(101)
                   /\ UNCHANGED <<networks, container_networks>>
              ELSE /\ host' = r.host
                   /\ mgr' = IF r.res = "panic" THEN "poisoned" ELSE "ready"
                   /\ networks' = r.networks
                   /\ container_networks' = r.container_networks
                   /\ lastCall' = Call("setup", Id0, r.res,
                                       IF Id0 \in DOMAIN r.container_networks
                                       THEN r.container_networks[Id0].ip_address ELSE None)
                   /\ trace' = [trace EXCEPT !.setup = r.res]
                   /\ IF r.res = "panic" THEN ParentExits(101)
                      ELSE /\ parent' = [parent EXCEPT !.pc = IF r.res = "ok" THEN "write"
                                                              ELSE "fail_close"]
                           /\ UNCHANGED pipe
    /\ UNCHANGED <<nops, allocVars, supVars, parseVars, stepVars, config, child, grand>>

\* parent, failure branch: close(write_raw)
ParentFailClose ==
    /\ parent.pc = "fail_close"
    /\ parent' = [parent EXCEPT !.pc = "fail_kill"]
    /\ pipe' = [pipe EXCEPT !.wParent = FALSE]
    /\ UNCHANGED <<mgrVars, allocVars, supVars, parseVars, stepVars, config, child, grand, trace>>

\* parent, failure branch: kill(child, SIGKILL); return Err(e), so main exits with 1.
\* The signal ends the child only: a process it forked in enter_pid_namespace lives on.
ParentFailKill ==
    /\ parent.pc = "fail_kill"
    /\ child' = IF ChildAlive THEN [child EXCEPT !.pc = "killed"] ELSE child
    /\ trace' = [trace EXCEPT !.killSent = TRUE]
    /\ parent' = [pc |-> "done", exit |-> Some(1)]
    /\ pipe' = [pipe EXCEPT !.wParent = FALSE, !.wChild = FALSE]
    /\ UNCHANGED <<mgrVars, allocVars, supVars, parseVars, stepVars, config, grand>>

\* parent: write(write_raw, b"1"); it fails (EPIPE, only logged) when no process holds
\* the read end any more
ParentWrite ==
    /\ parent.pc = "write"
    /\ parent' = [parent EXCEPT !.pc = "close"]
    /\ IF child.pc \in {"close_w", "prepare", "unshare", "read"}
       THEN /\ pipe' = [pipe EXCEPT !.bytes = 1]
            /\ trace' = [trace EXCEPT !.byteWritten = TRUE]
       ELSE UNCHANGED <<pipe, trace>>
    /\ UNCHANGED <<mgrVars, allocVars, supVars, parseVars, stepVars, config, child, grand>>

\* parent: close(write_raw)
ParentCloseWrite ==
    /\ parent.pc = "close"
    /\ parent' = [parent EXCEPT !.pc = "wait"]
    /\ pipe' = [pipe EXCEPT !.wParent = FALSE]
    /\ UNCHANGED <<mgrVars, allocVars, supVars, parseVars, stepVars, config, child, grand, trace>>

\* parent: waitpid(child, None) returns once the child has terminated; the status is
\* logged and not used
ParentWait ==
    /\ parent.pc = "wait"
    /\ child.pc \in {"exited", "killed"}
    /\ parent' = [parent EXCEPT !.pc = "cleanup"]
    /\ UNCHANGED <<mgrVars, allocVars, supVars, parseVars, stepVars, config, child, grand, pipe, trace>>

\* the subnet the hairpin delete of setup::cleanup_container_network spells
CleanupHairpinSubnet == "127.17.0.0/16"

\* setup::cleanup_container_network with the manager never forgetting the container
CleanupParentKeepsEntry(nw, cn, h, id, F) ==
    LET r == CleanupKeepsEntry(nw, cn, h, id, F)
        rule == HairpinRule(CleanupHairpinSubnet)
        c == Cmd("hairpin_del", F, IptHas(r.host.ipt, "POSTROUTING", rule))
    IN  [r EXCEPT !.host = IF c = "ok"
                           THEN [r.host EXCEPT !.ipt = IptDelete(@, "POSTROUTING", rule)]
                           ELSE r.host]

\* setup::cleanup_container_network: the manager's cleanup, then the delete of the
\* hairpin rule, whose result is dropped
CleanupContainerNetworkParent(nw, cn, h, id, F) ==
    LET r == CleanupContainerNetwork(nw, cn, h, id, F)
        rule == HairpinRule(CleanupHairpinSubnet)
        c == Cmd("hairpin_del", F, IptHas(r.host.ipt, "POSTROUTING", rule))
    IN  [r EXCEPT !.host = IF c = "ok"
                           THEN [r.host EXCEPT !.ipt = IptDelete(@, "POSTROUTING", rule)]
                           ELSE r.host]

\* parent: setup::cleanup_container_network; run returns Ok(()), so main returns and
\* the exit code is 0
ParentCleanup ==
    /\ parent.pc = "cleanup"
    /\ \E F \in FaultSets(CleanupSteps(config.ports) \cup {"hairpin_del"}) :
          LET r == CleanupContainerNetworkParent(networks, container_networks, host, Id0, F)
          IN  /\ host' = r.host
              /\ networks' = r.networks
              /\ container_networks' = r.container_networks
              /\ lastCall' = Call("cleanup", Id0, r.res,
                                  IF Id0 \in DOMAIN container_networks
                                  THEN container_networks[Id0].ip_address ELSE None)
    /\ trace' = [trace EXCEPT !.cleanup = TRUE]
    /\ ParentExits(0)
    /\ UNCHANGED <<mgr, nops, allocVars, supVars, parseVars, stepVars, config, child, grand>>

\* Host mode: run returns what run_container returned in this process
HostReturn ==
    /\ parent.pc = "host_run"
    /\ child.pc = "exited"
    /\ ParentExits(child.status[1])
    /\ UNCHANGED <<mgrVars, allocVars, supVars, parseVars, stepVars, config, child, grand, trace>>

\* a child that goes on to read without closing its copy of the write end
ChildKeepsWrite ==
    /\ child.pc = "close_w"
    /\ child' = [child EXCEPT !.pc = "prepare"]
    /\ UNCHANGED <<mgrVars, allocVars, supVars, parseVars, stepVars, config, parent, grand, pipe, trace>>

\* child: close(write_raw)
ChildCloseWrite ==
    /\ child.pc = "close_w"
    /\ child' = [child EXCEPT !.pc = "prepare"]
    /\ pipe' = [pipe EXCEPT !.wChild = FALSE]
    /\ UNCHANGED <<mgrVars, allocVars, supVars, parseVars, stepVars, config, parent, grand, trace>>

\* the child process ends: exit(1) after an Err, or the mirrored status
ChildExits(c) == child' = [child EXCEPT !.pc = "exited", !.status = Some(c)]

\* ImplVolume::setup_volumes as the child's steps: every volume is parsed and its
\* source created (VolumeMount::parse, VolumeManager::setup_volume; an Err of either
\* returns), then setup_fs(rootfs) bind-mounts every volume under the rootfs, its
\* result dropped, and Ok(impl_volume) is returned
SetupVolumes(vols) ==
    CASE vols = "none" -> <<>>
      [] vols = "err" -> <<>>
      [] vols = "prepared" -> <<"volumes_prepare", "setup_fs">>

\* set_hostname(..)? then setup_container_filesystem(..)?: the steps carried out
GrandSetupSteps(hostname_ok, fs_ok) ==
    IF ~hostname_ok THEN <<>>
    ELSE IF ~fs_ok THEN <<"set_hostname">>
    ELSE <<"set_hostname", "setup_container_filesystem">>

\* child: the cgroup block and the volume block; either can return Err.  With -v
\* given and no Err, ImplVolume::setup_volumes has prepared the volumes.
ChildPrepare ==
    /\ child.pc = "prepare"
    /\ \E limits \in BOOLEAN, cgroup_ok \in BOOLEAN, vols \in {"none", "prepared", "err"} :
          LET cgroup == IF limits /\ cgroup_ok THEN <<"cgroup">> ELSE <<>>
          IN  IF (limits => cgroup_ok) /\ vols # "err"
              THEN /\ child' = [child EXCEPT !.pc = "unshare"]
                   /\ trace' = [trace EXCEPT !.volumes = vols,
                                             !.log = @ \o cgroup \o SetupVolumes(vols)]
              ELSE /\ ChildExits(1)
                   /\ trace' = [trace EXCEPT !.log = @ \o cgroup]
    /\ UNCHANGED <<mgrVars, allocVars, supVars, parseVars, stepVars, config, parent, grand, pipe>>

\* child: NamespaceManager::unshare_namespaces(ns_config); with isolate_net the process
\* is in a new, empty network namespace from here on
ChildUnshare ==
    /\ child.pc = "unshare"
    /\ \E ok \in BOOLEAN :
          IF ok
          THEN /\ child' = [child EXCEPT !.pc = IF IsolateNet THEN "read" ELSE "pidns",
                                         !.ns = IF IsolateNet THEN NsOf(Id0) ELSE "host"]
               /\ trace' = [trace EXCEPT !.log = Append(@, "unshare_namespaces")]
          ELSE /\ ChildExits(1)
               /\ UNCHANGED trace
    /\ UNCHANGED <<mgrVars, allocVars, supVars, parseVars, stepVars, config, parent, grand, pipe>>

\* child: read(sync_fd) returns with the byte, or with 0 bytes once every write end is
\* closed; both arms only log and go on to close(sync_fd)
ChildRead ==
    /\ child.pc = "read"
    /\ pipe.bytes = 1 \/ (~pipe.wParent /\ ~pipe.wChild)
    /\ child' = [child EXCEPT !.pc = "pidns"]
    /\ pipe' = [pipe EXCEPT !.bytes = 0]
    /\ trace' = [trace EXCEPT !.log = Append(@, "barrier")]
    /\ UNCHANGED <<mgrVars, allocVars, supVars, parseVars, stepVars, config, parent, grand>>

\* child: NamespaceManager::enter_pid_namespace: a second fork; the forking process
\* waits for the new one, which is PID 1 of the new PID namespace and goes on
ChildEnterPidNamespace ==
    /\ child.pc = "pidns"
    /\ \E ok \in BOOLEAN :
          IF ok
          THEN /\ child' = [child EXCEPT !.pc = "wait_grand"]
               /\ grand' = [pc |-> "setup", status |-> None]
               /\ trace' = [trace EXCEPT !.passedBarrier = TRUE,
                                         !.log = Append(@, "enter_pid_namespace")]
          ELSE /\ ChildExits(1)
               /\ trace' = [trace EXCEPT !.passedBarrier = TRUE]
               /\ UNCHANGED grand
    /\ UNCHANGED <<mgrVars, allocVars, supVars, parseVars, stepVars, config, parent, pipe>>

\* child: the waiting side of enter_pid_namespace exits with the status of the process
\* it forked
ChildMirror ==
    /\ child.pc = "wait_grand"
    /\ grand.pc = "exited"
    /\ ChildExits(grand.status[1])
    /\ UNCHANGED <<mgrVars, allocVars, supVars, parseVars, stepVars, config, parent, grand, pipe, trace>>

\* grand: set_hostname and setup_container_filesystem; an Err ends in exit(1)
GrandSetup ==
    /\ grand.pc = "setup"
    /\ \E hostname_ok \in BOOLEAN, fs_ok \in BOOLEAN :
          /\ grand' = IF hostname_ok /\ fs_ok THEN [grand EXCEPT !.pc = "exec"] ELSE Exited(1)
          /\ trace' = [trace EXCEPT !.log = @ \o GrandSetupSteps(hostname_ok, fs_ok)]
    /\ UNCHANGED <<mgrVars, allocVars, supVars, parseVars, stepVars, config, parent, child, pipe>>

\* grand: execute_container_command up to the payload's execve in the process it
\* forks; Err (devpts, command not found, fork) ends in exit(1)
GrandExec ==
    /\ grand.pc = "exec"
    /\ \E ok \in BOOLEAN :
          IF ok
          THEN /\ grand' = [grand EXCEPT !.pc = "payload"]
               /\ trace' = [trace EXCEPT !.execd = TRUE, !.log = Append(@, "exec")]
          ELSE /\ grand' = Exited(1)
               /\ UNCHANGED trace
    /\ UNCHANGED <<mgrVars, allocVars, supVars, parseVars, stepVars, config, parent, child, pipe>>

\* grand: execute_container_command returns when the payload exits: Err for a
\* non-zero status, and `?` ends in exit(1); after Ok, cleanup_volume if a volume
\* manager exists, and exit(0)
GrandWaitPayload ==
    /\ grand.pc = "payload"
    /\ grand' = Exited(IF config.status = 0 THEN 0 ELSE 1)
    /\ trace' = IF config.status = 0 /\ trace.volumes = "prepared"
                THEN [trace EXCEPT !.volumes = "cleaned"]
                ELSE trace
    /\ UNCHANGED <<mgrVars, allocVars, supVars, parseVars, stepVars, config, parent, child, pipe>>

Next ==
    \/ ParentStart
    \/ ParentSleep
    \/ ParentSetupNetwork
    \/ ParentFailClose
    \/ ParentFailKill
    \/ ParentWrite
    \/ ParentCloseWrite
    \/ ParentWait
    \/ ParentCleanup
    \/ HostReturn
    \/ ChildCloseWrite
    \/ ChildPrepare
    \/ ChildUnshare
    \/ ChildRead
    \/ ChildEnterPidNamespace
    \/ ChildMirror
    \/ GrandSetup
    \/ GrandExec
    \/ GrandWaitPayload

Spec == Init /\ [][Next]_vars

\* C1: barrier ordering. In the isolated-network path the child performs no step that
\* follows the barrier (enter_pid_namespace and what comes after it) unless the parent
\* has written the sync byte, also when the parent's setup or write failed and the
\* write end was merely closed.
C1_BarrierOrdering == (IsolateNet /\ trace.passedBarrier) => trace.byteWritten

\* C2: in bridge mode, when the parent has just written the sync byte, the veth peer is
\* in the child's network namespace, is named eth0, holds the allocated address, is up,
\* and the default route has been added.
C2_ByteAfterNetnsConfigured ==
    (config.mode[1] = "Bridge" /\ parent.pc = "close" /\ trace.byteWritten) =>
        /\ HasVeth(host, Id0)
        /\ host.veth[Id0].peerNs = NsOf(Id0)
        /\ host.veth[Id0].peerName = "eth0"
        /\ host.veth[Id0].peerAddr = container_networks[Id0].ip_address
        /\ host.veth[Id0].peerUp
        /\ host.veth[Id0].route

\* C3: if the parent's network setup fails after the fork, the payload command is never
\* executed, and the parent ends having sent SIGKILL to the child and returned the
\* error (exit code 1).
C3_KillOnSetupFailure ==
    trace.setup \in {"err", "panic"} =>
        /\ ~trace.execd
        /\ parent.pc = "done" => (trace.killSent /\ parent.exit = Some(1))

\* C4: when setup_container_network returned an error after the fork, run does not
\* return before a network cleanup pass: in bridge mode the allocated IP is released,
\* the veth pair is deleted and no port-forward rule is left.
C4_CleanupAfterFailure ==
    (parent.pc = "done" /\ trace.setup = "err") =>
        /\ trace.cleanup
        /\ ~HasVeth(host, Id0)
        /\ \A p \in Positions : DnatCount("PREROUTING", p) = 0 /\ DnatCount("OUTPUT", p) = 0
        /\ "bridge" \in DOMAIN networks => networks["bridge"].allocated = {}

\* the payload command ran and exited with status 0
PayloadExitedZero == trace.execd /\ grand.pc = "exited" /\ config.status = 0

\* C6: when the corerun process has ended, its exit code is 0 if and only if the
\* payload exited with status 0, in every network mode.
C6_ExitCodeZeroIffPayloadZero ==
    parent.pc = "done" => (parent.exit = Some(0) <=> PayloadExitedZero)

\* C7: a run with network mode None creates or configures no bridge and adds or deletes
\* no iptables rule: the bridge and the chains stay as the run found them.
C7_NoneModeNoMutation ==
    config.mode = ModeNone => (host.bridge = CleanHost.bridge /\ host.ipt = EmptyChains)

-----------------------------------------------------------------------------
(* SpecTwo: two terminals invoke the runtime in bridge mode on one host.     *)
(* Every invocation is a process of its own with a fresh NetworkManager, so  *)
(* with an empty allocator; the processes share only the host, on which an   *)
(* address answers a ping once its container's interface is configured.      *)

InitTwo ==
    /\ AllocIdle
    /\ SupIdle
    /\ ParseIdle
    /\ StepIdle
    /\ MgrIdle
    /\ ProcIdle
    /\ host = CleanHost

\* the addresses that answer a ping: those of the containers already configured
Answering == {runtimes[r].ip[1] : r \in {q \in Runtimes : runtimes[q].pc = "configured"}}

\* a new invocation in terminal r up to allocator.allocate(): the ping scan, then the
\* first address the fresh allocator does not contain
RuntimeAllocate(r) ==
    /\ runtimes[r].pc = "idle"
    /\ runtimes[r].runs < MaxRuns
    /\ LET a == Allocate({}, Answering)
       IN  runtimes' = [runtimes EXCEPT ![r] =
                           [pc |-> IF a.ip = None THEN "idle" ELSE "allocated",
                            allocated |-> a.allocated, ip |-> a.ip, runs |-> @.runs + 1]]
    /\ UNCHANGED <<mgrVars, procVars, supVars, parseVars, stepVars, alloc, outstanding, lastRet>>

\* the invocation goes on to configure_interface: the address is on eth0 and up
RuntimeConfigure(r) ==
    /\ runtimes[r].pc = "allocated"
    /\ runtimes' = [runtimes EXCEPT ![r].pc = "configured"]
    /\ UNCHANGED <<mgrVars, procVars, supVars, parseVars, stepVars, alloc, outstanding, lastRet>>

\* the container ends: cleanup releases the address and deletes the veth pair, and the
\* process exits
RuntimeCleanup(r) ==
    /\ runtimes[r].pc = "configured"
    /\ runtimes' = [runtimes EXCEPT ![r] = [NoRuntime EXCEPT !.runs = runtimes[r].runs]]
    /\ UNCHANGED <<mgrVars, procVars, supVars, parseVars, stepVars, alloc, outstanding, lastRet>>

NextTwo ==
    \/ \E r \in Runtimes : RuntimeAllocate(r)
    \/ \E r \in Runtimes : RuntimeConfigure(r)
    \/ \E r \in Runtimes : RuntimeCleanup(r)

SpecTwo == InitTwo /\ [][NextTwo]_vars

\* C11: two concurrent invocations in bridge mode hold distinct addresses, under every
\* interleaving of one's scan and allocation with the other's allocation and
\* interface configuration.
C11_DistinctAddresses ==
    \A r1, r2 \in Runtimes :
        (r1 # r2 /\ runtimes[r1].ip # None /\ runtimes[r2].ip # None) =>
            runtimes[r1].ip # runtimes[r2].ip


-----------------------------------------------------------------------------
(* The process manager: ProcessManager::execute_container_command and the  *)
(* supervisor it becomes (src/src/process/process.rs).  The supervisor is  *)
(* one process with one signal handler; the payload is the process it      *)
(* forks.  A signal may be delivered to the supervisor between any two of  *)
(* its steps.                                                               *)

\* the signals the supervisor installs handle_signal for
Signals == {"SIGINT", "SIGTERM", "SIGQUIT"}
\* the pid fork() returns for the payload
PayloadPid == 2
\* most signals delivered to the supervisor in one run
MaxSignals == 2
\* the exit statuses of the payload that are told apart
Statuses == {0, 1}

\* the flags set_raw_mode(true) clears and the ones set_raw_mode(false) sets
RawCleared ==
    {"ICANON", "ECHO", "ISIG", "IEXTEN", "IXON", "ICRNL", "BRKINT", "INPCK", "ISTRIP", "OPOST"}
CookedSet == {"ICANON", "ECHO", "ISIG", "ICRNL", "OPOST"}

\* set_raw_mode without its disable branch
SetRawModeNoRestore(enable, t, tty) ==
    IF tty /\ enable THEN (t \ RawCleared) \cup {"CS8"} ELSE t
\* set_raw_mode(enable) on a terminal with flags t; tty: tcgetattr(stdin) succeeds
SetRawMode(enable, t, tty) ==
    IF ~tty THEN t
    ELSE IF enable THEN (t \ RawCleared) \cup {"CS8"}
    ELSE t \cup CookedSet

\* the terminals a run may start on
TermiosInputs == {SaneTermios, {"CS8", "OPOST", "IXON"}}

\* the value execute_container_command returns, with the payload's status at that time
Returned(ok, why) == Some([ok |-> ok, why |-> why, seen |-> payload.status])

\* a path is the sequence of its components; a command is a relative or an absolute one
Prefixes == << <<"bin">>, <<"usr", "bin">>, <<"sbin">>, <<"usr", "sbin">> >>
Commands == {[abs |-> FALSE, parts |-> <<"sh">>], [abs |-> TRUE, parts |-> <<"opt", "app">>],
             [abs |-> TRUE, parts |-> <<"bin", "sh">>]}
\* the files that may exist in the container
Files == {Prefixes[i] \o <<"sh">> : i \in DOMAIN Prefixes} \cup {<<"opt", "app">>}

\* format!("{}/{}", prefix, command)
JoinPath(prefix, command) == prefix \o command.parts

\* the resolution with the last existing candidate instead of the first
CommandPathLastHit(command, fs) ==
    LET hits == {i \in DOMAIN Prefixes : JoinPath(Prefixes[i], command) \in fs}
    IN  IF command.abs THEN command.parts
        ELSE IF hits # {} THEN JoinPath(Prefixes[CHOOSE i \in hits : \A j \in hits : j <= i], command)
        ELSE JoinPath(<<"bin">>, command)
\* let command_path = if command.starts_with("/") { command } else { first existing
\* candidate, or /bin/<command> }
CommandPath(command, fs) ==
    LET hits == {i \in DOMAIN Prefixes : JoinPath(Prefixes[i], command) \in fs}
    IN  IF command.abs THEN command.parts
        ELSE IF hits # {} THEN JoinPath(Prefixes[Min(hits)], command)
        ELSE JoinPath(<<"bin">>, command)

\* the process about to call execute_container_command(command, args)
SupAtEntry ==
    /\ sup = [pc |-> "start", command_path |-> None, path |-> "none", handlers |-> FALSE,
              rawSet |-> FALSE, ret |-> None]
    /\ CHILD_PID = 0
    /\ payload = [state |-> "none", status |-> None]
    /\ sigLog = <<>>

InitSup ==
    /\ AllocIdle
    /\ MgrIdle
    /\ ProcIdle
    /\ host = CleanHost
    /\ SupAtEntry
    /\ ParseIdle
    /\ StepIdle
    /\ termios \in TermiosInputs
    /\ env \in [sigchld : {"default", "ignore"}, tty : BOOLEAN,
                command : {[abs |-> FALSE, parts |-> <<"sh">>]},
                fs : {{}, {<<"bin", "sh">>}}]

\* ensure_devpts_mounted()?, the resolution of the command and the existence check
SupResolve ==
    /\ sup.pc = "start"
    /\ \E devpts_ok \in BOOLEAN :
        LET command_path == CommandPath(env.command, env.fs)
        IN  sup' = IF ~devpts_ok
                   THEN [sup EXCEPT !.pc = "returned", !.ret = Returned(FALSE, "devpts")]
                   ELSE IF command_path \notin env.fs
                   THEN [sup EXCEPT !.pc = "returned", !.command_path = Some(command_path),
                                    !.ret = Returned(FALSE, "not_found")]
                   ELSE [sup EXCEPT !.pc = "probe", !.command_path = Some(command_path)]
    /\ UNCHANGED <<mgrVars, allocVars, procVars, parseVars, stepVars, CHILD_PID, payload, termios, env, sigLog>>

\* let use_pty = openpty(None, None).is_ok()
SupProbe ==
    /\ sup.pc = "probe"
    /\ \E ok \in BOOLEAN :
        sup' = [sup EXCEPT !.pc = IF ok THEN "pty_open" ELSE "np_install",
                           !.path = IF ok THEN "pty" ELSE "nopty"]
    /\ UNCHANGED <<mgrVars, allocVars, procVars, parseVars, stepVars, CHILD_PID, payload, termios, env, sigLog>>

\* execute_with_pty: let pty = openpty(None, None).map_err(..)?
SupOpenPty ==
    /\ sup.pc = "pty_open"
    /\ \E ok \in BOOLEAN :
        sup' = IF ok THEN [sup EXCEPT !.pc = "install"]
               ELSE [sup EXCEPT !.pc = "returned", !.ret = Returned(FALSE, "openpty")]
    /\ UNCHANGED <<mgrVars, allocVars, procVars, parseVars, stepVars, CHILD_PID, payload, termios, env, sigLog>>

\* signal(SIGINT | SIGTERM | SIGQUIT, Handler(handle_signal)), on either path
SupInstallHandlers ==
    /\ sup.pc \in {"install", "np_install"}
    /\ sup' = [sup EXCEPT !.handlers = TRUE,
                          !.pc = IF sup.pc = "install" THEN "fork" ELSE "np_fork"]
    /\ UNCHANGED <<mgrVars, allocVars, procVars, parseVars, stepVars, CHILD_PID, payload, termios, env, sigLog>>

\* match unsafe { fork()? }: the payload exists from here on
SupFork ==
    /\ sup.pc \in {"fork", "np_fork"}
    /\ \E ok \in BOOLEAN :
        IF ok
        THEN /\ payload' = [state |-> "running", status |-> None]
             /\ sup' = [sup EXCEPT !.pc = IF sup.pc = "fork" THEN "store" ELSE "np_store"]
        ELSE /\ payload' = payload
             /\ sup' = [sup EXCEPT !.pc = "returned", !.ret = Returned(FALSE, "fork")]
    /\ UNCHANGED <<mgrVars, allocVars, procVars, parseVars, stepVars, CHILD_PID, termios, env, sigLog>>

\* ForkResult::Parent: CHILD_PID.store(child.as_raw(), SeqCst)
SupStorePid ==
    /\ sup.pc \in {"store", "np_store"}
    /\ CHILD_PID' = PayloadPid
    /\ sup' = [sup EXCEPT !.pc = IF sup.pc = "store" THEN "raw" ELSE "np_wait"]
    /\ UNCHANGED <<mgrVars, allocVars, procVars, parseVars, stepVars, payload, termios, env, sigLog>>

\* Self::set_raw_mode(true)
SupSetRaw ==
    /\ sup.pc = "raw"
    /\ termios' = SetRawMode(TRUE, termios, env.tty)
    /\ sup' = [sup EXCEPT !.pc = "dup", !.rawSet = env.tty]
    /\ UNCHANGED <<mgrVars, allocVars, procVars, parseVars, stepVars, CHILD_PID, payload, env, sigLog>>

\* libc::dup(master_fd); a negative result restores the terminal and returns Err
SupDup ==
    /\ sup.pc = "dup"
    /\ \E ok \in BOOLEAN :
        IF ok
        THEN /\ sup' = [sup EXCEPT !.pc = "loop"]
             /\ termios' = termios
        ELSE /\ sup' = [sup EXCEPT !.pc = "returned", !.ret = Returned(FALSE, "dup")]
             /\ termios' = SetRawMode(FALSE, termios, env.tty)
    /\ UNCHANGED <<mgrVars, allocVars, procVars, parseVars, stepVars, CHILD_PID, payload, env, sigLog>>

\* the loop's waitpid(child, WNOHANG): a zombie is reaped and its arm is entered,
\* ECHILD breaks out of the loop; StillAlive reads the master and tries again
SupLoopWait ==
    /\ sup.pc = "loop"
    /\ payload.state \in {"zombie", "reaped"}
    /\ IF payload.state = "zombie"
       THEN /\ payload' = [payload EXCEPT !.state = "reaped"]
            /\ sup' = [sup EXCEPT !.pc = "arm"]
       ELSE /\ payload' = payload
            /\ sup' = [sup EXCEPT !.pc = "final"]
    /\ UNCHANGED <<mgrVars, allocVars, procVars, parseVars, stepVars, CHILD_PID, termios, env, sigLog>>

\* the Exited and Signaled arms: CHILD_PID.store(0); set_raw_mode(false); return
SupArm ==
    /\ sup.pc = "arm"
    /\ CHILD_PID' = 0
    /\ termios' = SetRawMode(FALSE, termios, env.tty)
    /\ sup' = [sup EXCEPT !.pc = "returned",
                          !.ret = IF payload.status = <<"exited", 0>>
                                  THEN Returned(TRUE, "exited")
                                  ELSE Returned(FALSE, payload.status[1])]
    /\ UNCHANGED <<mgrVars, allocVars, procVars, parseVars, stepVars, payload, env, sigLog>>

\* after the loop: the final waitpid(child, empty) and the fall-through
\* `_ => {}` ... set_raw_mode(false); Ok(())
SupFinalWait ==
    /\ sup.pc = "final"
    /\ payload.state \in {"zombie", "reaped"}
    /\ termios' = SetRawMode(FALSE, termios, env.tty)
    /\ IF payload.state = "zombie"
       THEN /\ payload' = [payload EXCEPT !.state = "reaped"]
            /\ CHILD_PID' = 0
            /\ sup' = [sup EXCEPT !.pc = "returned",
                                  !.ret = IF payload.status = <<"exited", 0>>
                                          THEN Returned(TRUE, "exited")
                                          ELSE Returned(FALSE, payload.status[1])]
       ELSE /\ payload' = payload
            /\ CHILD_PID' = CHILD_PID
            /\ sup' = [sup EXCEPT !.pc = "returned", !.ret = Returned(TRUE, "fallthrough")]
    /\ UNCHANGED <<mgrVars, allocVars, procVars, parseVars, stepVars, env, sigLog>>

\* execute_without_pty: Self::wait_for_child(child)?  (blocking waitpid)
SupWaitForChild ==
    /\ sup.pc = "np_wait"
    /\ payload.state \in {"zombie", "reaped"}
    /\ IF payload.state = "zombie"
       THEN /\ payload' = [payload EXCEPT !.state = "reaped"]
            /\ sup' = IF payload.status = <<"exited", 0>>
                      THEN [sup EXCEPT !.pc = "np_clear"]
                      ELSE [sup EXCEPT !.pc = "returned",
                                       !.ret = Returned(FALSE, payload.status[1])]
       ELSE /\ payload' = payload
            /\ sup' = [sup EXCEPT !.pc = "returned", !.ret = Returned(FALSE, "waitpid")]
    /\ UNCHANGED <<mgrVars, allocVars, procVars, parseVars, stepVars, CHILD_PID, termios, env, sigLog>>

\* execute_without_pty: CHILD_PID.store(0, SeqCst); Ok(())
SupNpClear ==
    /\ sup.pc = "np_clear"
    /\ CHILD_PID' = 0
    /\ sup' = [sup EXCEPT !.pc = "returned", !.ret = Returned(TRUE, "exited")]
    /\ UNCHANGED <<mgrVars, allocVars, procVars, parseVars, stepVars, payload, termios, env, sigLog>>

\* the process ends after execute_container_command has returned
SupProcessExit ==
    /\ sup.pc = "returned"
    /\ sup' = [sup EXCEPT !.pc = "exited"]
    /\ UNCHANGED <<mgrVars, allocVars, procVars, parseVars, stepVars, CHILD_PID, payload, termios, env, sigLog>>

\* the state a payload that ended is left in: with SIGCHLD ignored the kernel
\* reaps it at once and waitpid answers ECHILD
Ended == IF env.sigchld = "ignore" THEN "reaped" ELSE "zombie"

\* the payload (or the forked child whose execve failed) exits with status st
PayloadExit(st) ==
    /\ payload.state = "running"
    /\ payload' = [state |-> Ended, status |-> <<"exited", st>>]
    /\ UNCHANGED <<mgrVars, allocVars, procVars, parseVars, stepVars, sup, CHILD_PID, termios, env, sigLog>>

\* handle_signal(sig): if CHILD_PID.load() > 0 { kill(Pid::from_raw(child), sig) }
HandleSignal(pid) == pid > 0

\* SIGINT, SIGTERM or SIGQUIT is delivered to the supervisor process
DeliverSignal(s) ==
    /\ sup.pc \notin {"none", "dead", "exited"}
    /\ Len(sigLog) < MaxSignals
    /\ LET sent == sup.handlers /\ HandleSignal(CHILD_PID)
       IN  /\ sigLog' = Append(sigLog, [sig |-> s, state |-> payload.state,
                                        pid |-> CHILD_PID, sent |-> sent])
           /\ \E dies \in BOOLEAN :
                /\ payload' = IF sent /\ dies /\ payload.state = "running"
                              THEN [state |-> Ended, status |-> <<"signaled", s>>]
                              ELSE payload
                /\ sup' = IF ~sup.handlers /\ dies THEN [sup EXCEPT !.pc = "dead"] ELSE sup
    /\ UNCHANGED <<mgrVars, allocVars, procVars, parseVars, stepVars, CHILD_PID, termios, env>>

NextSup ==
    \/ SupResolve
    \/ SupProbe
    \/ SupOpenPty
    \/ SupInstallHandlers
    \/ SupFork
    \/ SupStorePid
    \/ SupSetRaw
    \/ SupDup
    \/ SupLoopWait
    \/ SupArm
    \/ SupFinalWait
    \/ SupWaitForChild
    \/ SupNpClear
    \/ SupProcessExit
    \/ \E st \in Statuses : PayloadExit(st)
    \/ \E s \in Signals : DeliverSignal(s)

SpecSup == InitSup /\ [][NextSup]_vars

\* C12: a signal delivered to the supervisor while the payload exists (forked
\* and not yet reaped) is sent on to the payload's pid.
C12_SignalForwarded ==
    \A i \in 1..Len(sigLog) :
        sigLog[i].state \in {"running", "zombie"} => sigLog[i].sent


\* C13: execute_container_command returns Ok exactly when the payload exited
\* with status 0; whenever it returns, on the PTY path or on the fallback path,
\* the value is an error unless the payload's status is "exited with 0".
C13_OkIffExitedZero ==
    sup.ret # None => (sup.ret[1].ok <=> sup.ret[1].seen = <<"exited", 0>>)

\* C14: once set_raw_mode(true) has changed the terminal, execute_with_pty has
\* set every flag of cooked mode again by the time it has returned.
C14_RawModeReleased ==
    (sup.rawSet /\ sup.ret # None) => CookedSet \subseteq termios

\* raw mode was enabled on a sane terminal and the supervisor returned
C14_Witness ==
    /\ sup.rawSet
    /\ sup.ret # None
    /\ sup.ret[1].why \in {"dup", "fallthrough", "SIGINT", "exited"}
    /\ CookedSet \subseteq termios


\* C15: in every state of a run, for either id and whichever command fails,
\* cleanup_container_network returns Ok, a second call for the same id returns Ok
\* and leaves the manager and the host as the first call left them, and a call
\* for an id that has no entry leaves the container map and the allocators as
\* they were.
C15_CleanupIdempotent ==
    \A id \in Ids :
        LET faults == FaultSets(CleanupSteps(IF id \in DOMAIN container_networks
                                             THEN container_networks[id].ports ELSE <<>>)
                                \cup {"hairpin_del"})
        IN  \A F1 \in faults :
                LET r1 == CleanupContainerNetworkParent(networks, container_networks,
                                                        host, id, F1)
                IN  /\ r1.res = "ok"
                    /\ \A F2 \in faults :
                           CleanupContainerNetworkParent(r1.networks, r1.container_networks,
                                                         r1.host, id, F2) = r1
                    /\ id \notin DOMAIN container_networks =>
                           /\ r1.networks = networks
                           /\ r1.container_networks = container_networks

\* the parent has cleaned up a bridge container that had two port forwards
C15_Witness ==
    /\ trace.cleanup
    /\ lastCall.op = "cleanup"
    /\ lastCall.ip # None
    /\ Len(config.ports) = 2
    /\ Id0 \notin DOMAIN container_networks


\* every process of the run has ended
RunOver ==
    /\ parent.pc = "done"
    /\ child.pc \in {"none", "exited", "killed"}
    /\ grand.pc \in {"none", "exited"}

\* C16: when the run is over and volumes were prepared, cleanup_volume has been
\* executed, whatever the payload's exit status was and whichever later step failed.
C16_VolumeCleanupOnEveryPath == (RunOver /\ trace.volumes # "none") => trace.volumes = "cleaned"


-----------------------------------------------------------------------------
(* SpecResolve: execute_container_command from its entry to the fork, for  *)
(* every command and every set of existing files.                          *)

InitResolve ==
    /\ AllocIdle
    /\ MgrIdle
    /\ ProcIdle
    /\ host = CleanHost
    /\ SupAtEntry
    /\ ParseIdle
    /\ StepIdle
    /\ termios = SaneTermios
    /\ env \in [sigchld : {"default"}, tty : {TRUE}, command : Commands, fs : SUBSET Files]

NextResolve ==
    \/ SupResolve
    \/ SupProbe
    \/ SupOpenPty
    \/ SupInstallHandlers
    \/ SupFork

SpecResolve == InitResolve /\ [][NextResolve]_vars

\* C18: once the command is resolved, an absolute command is the resolved path as
\* it stands; a relative command that exists under one of /bin, /usr/bin, /sbin,
\* /usr/sbin resolves to the first of them, in that order, where it exists; and if
\* the resolved path does not exist, the call has returned the "not found" error
\* with no PTY opened and no process forked.
C18_CommandResolution ==
    sup.command_path # None =>
        LET command == env.command
            path == sup.command_path[1]
            hits == {i \in DOMAIN Prefixes : Prefixes[i] \o command.parts \in env.fs}
        IN  /\ command.abs => path = command.parts
            /\ (~command.abs /\ hits # {}) =>
                  \E i \in hits : /\ path = Prefixes[i] \o command.parts
                                  /\ \A j \in hits : i <= j
            /\ path \notin env.fs =>
                  /\ sup.ret # None
                  /\ ~sup.ret[1].ok
                  /\ sup.ret[1].why = "not_found"
                  /\ sup.path = "none"
                  /\ payload.state = "none"

\* a relative command missing from /bin and present in /usr/bin and /sbin was
\* resolved to /usr/bin and its payload was forked
C18_Witness ==
    /\ ~env.command.abs
    /\ <<"bin", "sh">> \notin env.fs
    /\ {<<"usr", "bin", "sh">>, <<"sbin", "sh">>} \subseteq env.fs
    /\ sup.command_path = Some(<<"usr", "bin", "sh">>)
    /\ payload.state = "running"


-----------------------------------------------------------------------------
(* The parsers of the command line: VolumeMount::parse, PortMapping::parse  *)
(* and the port list of parse_args.  A text is the sequence of its          *)
(* characters, so that split, to_lowercase and parse::<u16> are computed    *)
(* on the characters as the code computes them.                             *)

\* most parts (separated by ':') of a generated volume spec
MaxParts == 4
\* most parts (separated by ':') of a generated port spec
MaxPortParts == 3
\* u16::MAX
U16Max == 65535

\* s.split(sep).collect::<Vec<&str>>(): the pieces between the separators
RECURSIVE Split(_, _)
Split(s, sep) ==
    LET at == {i \in 1 .. Len(s) : s[i] = sep}
    IN  IF at = {} THEN <<s>>
        ELSE <<SubSeq(s, 1, Min(at) - 1)>> \o Split(SubSeq(s, Min(at) + 1, Len(s)), sep)

\* the text a user writes for the given parts: the parts with sep between them
RECURSIVE JoinWith(_, _)
JoinWith(parts, sep) ==
    IF Len(parts) = 1 THEN parts[1]
    ELSE parts[1] \o <<sep>> \o JoinWith(Tail(parts), sep)

\* ContainerResult<T>
Ok(v) == [ok |-> TRUE, v |-> v]
Err(kind) == [ok |-> FALSE, err |-> kind]

\* PathBuf::is_absolute
IsAbsolute(path) == Len(path) > 0 /\ path[1] = "/"

\* the directory create_anonymous_volume makes: temp_dir()/CoreRun/vol_<uuid>
AnonymousSource == <<"/", "tmp/CoreRun/vol_uuid">>

ReadOnlyText == <<"r", "o">>
ReadWriteText == <<"r", "w">>

\* VolumeMount::parse without the destination test of its three-part arm
VolumeParseNoDestCheck(volume_str, anon_ok) ==
    LET parts == Split(volume_str, ":")
    IN  CASE Len(parts) = 1 ->
               IF ~IsAbsolute(parts[1]) THEN Err("Volume")
               ELSE IF ~anon_ok THEN Err("Io")
               ELSE Ok([source |-> AnonymousSource, dest |-> parts[1], mode |-> "ReadWrite"])
          [] Len(parts) = 2 ->
               IF ~IsAbsolute(parts[2]) THEN Err("Volume")
               ELSE Ok([source |-> parts[1], dest |-> parts[2], mode |-> "ReadWrite"])
          [] Len(parts) = 3 ->
               IF parts[3] \notin {ReadOnlyText, ReadWriteText} THEN Err("InvalidConfiguration")
               ELSE Ok([source |-> parts[1], dest |-> parts[2],
                        mode |-> IF parts[3] = ReadOnlyText THEN "ReadOnly" ELSE "ReadWrite"])
          [] OTHER -> Err("InvalidConfiguration")
\* VolumeMount::parse(volume_str); anon_ok: create_dir_all of the anonymous directory
\* succeeds
VolumeParse(volume_str, anon_ok) ==
    LET parts == Split(volume_str, ":")
    IN  CASE Len(parts) = 1 ->
               IF ~IsAbsolute(parts[1]) THEN Err("Volume")
               ELSE IF ~anon_ok THEN Err("Io")
               ELSE Ok([source |-> AnonymousSource, dest |-> parts[1], mode |-> "ReadWrite"])
          [] Len(parts) = 2 ->
               IF ~IsAbsolute(parts[2]) THEN Err("Volume")
               ELSE Ok([source |-> parts[1], dest |-> parts[2], mode |-> "ReadWrite"])
          [] Len(parts) = 3 ->
               IF parts[3] \notin {ReadOnlyText, ReadWriteText} THEN Err("InvalidConfiguration")
               ELSE IF ~IsAbsolute(parts[2]) THEN Err("Volume")
               ELSE Ok([source |-> parts[1], dest |-> parts[2],
                        mode |-> IF parts[3] = ReadOnlyText THEN "ReadOnly" ELSE "ReadWrite"])
          [] OTHER -> Err("InvalidConfiguration")

\* the parts volume specs are written with
VolumeParts ==
    {<<>>, <<"/", "d">>, <<"d">>, ReadOnlyText, ReadWriteText, <<"r", "x">>}

\* the value of a decimal digit
DigitValue ==
    [c \in {"0", "1", "2", "3", "4", "5", "6", "7", "8", "9"} |->
        CASE c = "0" -> 0 [] c = "1" -> 1 [] c = "2" -> 2 [] c = "3" -> 3 [] c = "4" -> 4
          [] c = "5" -> 5 [] c = "6" -> 6 [] c = "7" -> 7 [] c = "8" -> 8 [] c = "9" -> 9]

\* the number a string of digits denotes
RECURSIVE Decimal(_)
Decimal(t) ==
    IF t = <<>> THEN 0 ELSE 10 * Decimal(SubSeq(t, 1, Len(t) - 1)) + DigitValue[t[Len(t)]]

\* str::parse::<u16>(): an optional '+', then one or more digits, at most u16::MAX
ParseU16(t) ==
    LET digits == IF t # <<>> /\ t[1] = "+" THEN Tail(t) ELSE t
    IN  IF digits = <<>> \/ \E i \in 1 .. Len(digits) : digits[i] \notin DOMAIN DigitValue
        THEN Err("Network")
        ELSE IF Decimal(digits) > U16Max THEN Err("Network")
        ELSE Ok(Decimal(digits))

\* str::to_lowercase on the letters of the protocol names
ToLowercase(t) ==
    [i \in 1 .. Len(t) |->
        CASE t[i] = "T" -> "t" [] t[i] = "C" -> "c" [] t[i] = "P" -> "p"
          [] t[i] = "U" -> "u" [] t[i] = "D" -> "d" [] OTHER -> t[i]]

\* PortMapping::parse(s)
PortParse(s) ==
    LET parts == Split(s, "/")
        lower == IF Len(parts) > 1 THEN ToLowercase(parts[2]) ELSE <<>>
        port_parts == Split(parts[1], ":")
    IN  IF Len(parts) > 1 /\ lower \notin {<<"t", "c", "p">>, <<"u", "p", "d">>}
        THEN Err("Network")
        ELSE IF Len(port_parts) # 2 THEN Err("Network")
        ELSE IF ~ParseU16(port_parts[1]).ok THEN Err("Network")
        ELSE IF ~ParseU16(port_parts[2]).ok THEN Err("Network")
        ELSE Ok([host_port |-> ParseU16(port_parts[1]).v,
                 container_port |-> ParseU16(port_parts[2]).v,
                 protocol |-> IF lower = <<"u", "p", "d">> THEN "UDP" ELSE "TCP"])

\* parse_args: the values of -P that parse, in their order; the others are dropped
\* with a warning
RECURSIVE PortsOfArgs(_)
PortsOfArgs(args) ==
    IF args = <<>> THEN <<>>
    ELSE LET r == PortParse(Head(args))
         IN  (IF r.ok THEN <<r.v>> ELSE <<>>) \o PortsOfArgs(Tail(args))

\* the texts port specs are written with, and the protocol suffixes
PortTexts ==
    {<<"8", "0">>, <<"8", "0", "8", "0">>, <<>>, <<"x">>, <<"6", "5", "5", "3", "6">>,
     <<"+", "1">>}
Suffixes ==
    {<<>>, <<"/", "t", "c", "p">>, <<"/", "u", "d", "p">>, <<"/", "u", "p", "d">>,
     <<"/", "T", "C", "P">>, <<"/", "x">>}
\* the values of -P of an invocation
PortArgs ==
    {JoinWith(<<<<"8", "0", "8", "0">>, <<"8", "0">>>>, ":") \o x : x \in Suffixes}
    \cup {<<"x">>}

\* the calls: a volume spec, a port spec, or the list of the -P values; parts and
\* suffix record how the text was written
VolumeInputs ==
    UNION {{[text |-> JoinWith(ps, ":"), parts |-> ps, anon_ok |-> a] :
                ps \in [1 .. n -> VolumeParts], a \in BOOLEAN} : n \in 1 .. MaxParts}
PortInputs ==
    UNION {{[text |-> JoinWith(ps, ":") \o x, parts |-> ps, suffix |-> x] :
                ps \in [1 .. n -> PortTexts], x \in Suffixes} : n \in 1 .. MaxPortParts}
ArgsInputs ==
    {<<>>} \cup {<<a>> : a \in PortArgs} \cup {<<a, b>> : a, b \in PortArgs}

InitParse ==
    /\ AllocIdle
    /\ MgrIdle
    /\ ProcIdle
    /\ SupIdle
    /\ StepIdle
    /\ host = CleanHost
    /\ \/ call \in [fn : {"VolumeMount::parse"}, input : VolumeInputs, out : {None}]
       \/ call \in [fn : {"PortMapping::parse"}, input : PortInputs, out : {None}]
       \/ call \in [fn : {"parse_args"}, input : ArgsInputs, out : {None}]

VolumeParseCall ==
    /\ call.fn = "VolumeMount::parse"
    /\ call.out = None
    /\ call' = [call EXCEPT !.out = Some(VolumeParse(call.input.text, call.input.anon_ok))]
    /\ UNCHANGED <<mgrVars, allocVars, procVars, supVars, stepVars>>

PortParseCall ==
    /\ call.fn = "PortMapping::parse"
    /\ call.out = None
    /\ call' = [call EXCEPT !.out = Some(PortParse(call.input.text))]
    /\ UNCHANGED <<mgrVars, allocVars, procVars, supVars, stepVars>>

ParseArgsCall ==
    /\ call.fn = "parse_args"
    /\ call.out = None
    /\ call' = [call EXCEPT !.out = Some(PortsOfArgs(call.input))]
    /\ UNCHANGED <<mgrVars, allocVars, procVars, supVars, stepVars>>

NextParse ==
    \/ VolumeParseCall
    \/ PortParseCall
    \/ ParseArgsCall

SpecParse == InitParse /\ [][NextParse]_vars

\* C19: a one-part volume spec yields an anonymous source, the given destination
\* and ReadWrite; a two-part spec the given source and destination and ReadWrite;
\* a three-part spec the given source and destination and the mode its third part
\* names; a destination that is not absolute, a third part other than ro and rw,
\* and more than three parts are rejected.
C19_VolumeSpecParsing ==
    (call.fn = "VolumeMount::parse" /\ call.out # None) =>
        LET ps == call.input.parts
            n == Len(ps)
            out == call.out[1]
            accepted(source, mode) ==
                out = [ok |-> TRUE, v |-> [source |-> source, dest |-> ps[IF n = 1 THEN 1 ELSE 2],
                                           mode |-> mode]]
            dest_absolute == LET d == ps[IF n = 1 THEN 1 ELSE 2] IN d # <<>> /\ d[1] = "/"
        IN  /\ n > 3 => ~out.ok
            /\ (n <= 3 /\ ~dest_absolute) => ~out.ok
            /\ (n = 3 /\ ps[3] \notin {<<"r", "o">>, <<"r", "w">>}) => ~out.ok
            /\ (n = 1 /\ dest_absolute /\ call.input.anon_ok) =>
                   accepted(AnonymousSource, "ReadWrite")
            /\ (n = 2 /\ dest_absolute) => accepted(ps[1], "ReadWrite")
            /\ (n = 3 /\ dest_absolute /\ ps[3] = <<"r", "o">>) => accepted(ps[1], "ReadOnly")
            /\ (n = 3 /\ dest_absolute /\ ps[3] = <<"r", "w">>) => accepted(ps[1], "ReadWrite")

\* a three-part spec with an absolute destination and ro was parsed
C19_Witness ==
    /\ call.fn = "VolumeMount::parse"
    /\ call.out # None
    /\ Len(call.input.parts) = 3
    /\ call.out[1].ok
    /\ call.out[1].v.mode = "ReadOnly"

\* the value a port text of the grammar denotes
PortNumber(t) == IF t = <<"8", "0">> THEN 80 ELSE 8080

\* C20: HOST:CONTAINER, HOST:CONTAINER/tcp and HOST:CONTAINER/udp are accepted by
\* PortMapping::parse with the two ports and the protocol TCP, TCP and UDP; and every
\* value of -P of one of these forms is in the port list parse_args configures.
C20_PortSpecParsing ==
    /\ (call.fn = "PortMapping::parse" /\ call.out # None) =>
          LET ps == call.input.parts
              x == call.input.suffix
          IN  (/\ Len(ps) = 2
               /\ ps[1] \in {<<"8", "0">>, <<"8", "0", "8", "0">>}
               /\ ps[2] \in {<<"8", "0">>, <<"8", "0", "8", "0">>}
               /\ x \in {<<>>, <<"/", "t", "c", "p">>, <<"/", "u", "d", "p">>}) =>
                  call.out[1] = [ok |-> TRUE,
                                 v |-> [host_port |-> PortNumber(ps[1]),
                                        container_port |-> PortNumber(ps[2]),
                                        protocol |-> IF x = <<"/", "u", "d", "p">>
                                                     THEN "UDP" ELSE "TCP"]]
    /\ (call.fn = "parse_args" /\ call.out # None) =>
          \A i \in 1 .. Len(call.input) :
              \A x \in {<<>>, <<"/", "t", "c", "p">>, <<"/", "u", "d", "p">>} :
                  call.input[i] = <<"8", "0", "8", "0", ":", "8", "0">> \o x =>
                      \E j \in 1 .. Len(call.out[1]) :
                          call.out[1][j] = [host_port |-> 8080, container_port |-> 80,
                                            protocol |-> IF x = <<>> \/ x[2] = "t"
                                                         THEN "TCP" ELSE "UDP"]

-----------------------------------------------------------------------------
(* Claims about the host state one invocation leaves, checked under Spec. *)

\* C21: after the parent's post-wait cleanup (setup::cleanup_container_network) the
\* hairpin rule setup_nat appended for the default subnet (-s 127.0.0.1 -d <subnet>
\* -j MASQUERADE) is not in POSTROUTING any more.
C21_HairpinRuleRemoved ==
    trace.cleanup => ~IptHas(host.ipt, "POSTROUTING", HairpinRule(DefaultSubnet))

-----------------------------------------------------------------------------
(* Claims about the NetworkManager and its allocator. *)

\* C22: immediately after NetworkManager construction the networks map holds exactly
\* the default entry, with name "bridge", bridge device corerun0, subnet
\* 172.18.0.0/16, gateway 172.18.0.1 (host #1 of the subnet) and an empty allocator,
\* and the container map is empty.
C22_DefaultNetworkAtConstruction ==
    (lastCall.op = "new" /\ lastCall.result = "ok") =>
        /\ DOMAIN networks = {"bridge"}
        /\ networks["bridge"].name = "bridge"
        /\ networks["bridge"].bridge = "corerun0"
        /\ networks["bridge"].subnet = "172.18.0.0/16"
        /\ networks["bridge"].gateway = GatewayPos
        /\ Ip(networks["bridge"].gateway) = "172.18.0.1"
        /\ networks["bridge"].allocated = {}
        /\ container_networks = EmptyMap

\* C23: whatever set the allocator holds and whichever addresses answer the ping scan,
\* allocate returns the lowest address from position 2 on (network address and gateway
\* skipped) that is not in the set at the time of selection, that is after the probed
\* candidates that answered were inserted; it inserts exactly that address; and the
\* address it returns is none of the probed candidates that answered.
C23_AllocateLowestFree ==
    \A live \in SUBSET Positions :
        LET r == Allocate(alloc, live)
            answered == {p \in live : p >= SkipCount /\ p < SkipCount + ScanTake}
            atSelection == alloc \cup answered
            candidates == {p \in Positions : p >= SkipCount}
        IN  /\ (candidates \ atSelection # {}) => r.ip # None
            /\ r.ip # None =>
                  /\ r.ip[1] \in candidates \ atSelection
                  /\ \A p \in candidates : p < r.ip[1] => p \in atSelection
                  /\ r.allocated = atSelection \cup {r.ip[1]}
                  /\ r.ip[1] \notin answered

\* C23 witness: allocate has returned address 3 while address 2, which it never handed
\* out since its last release, is in the set: 2 answered a scan
C23_Witness ==
    /\ lastRet = [op |-> "allocate", ip |-> Some(3)]
    /\ outstanding[2] = 0
    /\ 2 \in alloc
    /\ outstanding[3] = 1

\* a step of release(ip): what the allocator holds after it, compared with before
ReleaseFrame ==
    lastRet'.op = "release" =>
        LET ip == lastRet'.ip[1]
        IN  /\ ip \notin alloc'
            /\ \A p \in Positions \ {ip} : (p \in alloc') <=> (p \in alloc)
            /\ ip \notin alloc => alloc' = alloc

\* C24: release(ip) removes exactly ip from the allocated set and leaves the membership
\* of every other address as it was; releasing an address that is not in the set
\* leaves the set unchanged (release returns (), so there is no error to report).
C24_ReleaseRemovesExactlyIp == [][ReleaseFrame]_vars

\* C24 witness: address 2 was released while addresses 3 and 4 stay allocated
C24_Witness ==
    /\ lastRet = [op |-> "release", ip |-> Some(2)]
    /\ alloc = {3, 4}
    /\ outstanding[3] = 1
    /\ outstanding[4] = 1

\* C25: remove_port_forward deletes what add_port_forward inserted: on every host state
\* and for every port mapping (host_port and container_port differ in PortA and PortB)
\* and container address, add_port_forward followed by remove_port_forward with the
\* same arguments, every command succeeding, leaves the PREROUTING, OUTPUT and FORWARD
\* chains as they were before the add.
C25_RemoveMirrorsAdd ==
    \A port \in {PortA, PortB} :
        \A ip \in {p \in Positions : p >= SkipCount} :
            LET added == AddPortForward(host, port, ip, 1, {})
                removed == RemovePortForward(added.h, port, ip, 1, {})
            IN  /\ added.ok
                /\ removed.ok
                /\ removed.h.ipt.PREROUTING = host.ipt.PREROUTING
                /\ removed.h.ipt.OUTPUT = host.ipt.OUTPUT
                /\ removed.h.ipt.FORWARD = host.ipt.FORWARD

-----------------------------------------------------------------------------
(* SpecThread: the NetworkManager operations statement by statement.  One     *)
(* thread (the one that holds NETWORK_MANAGER) is inside setup_bridge_network, *)
(* cleanup_container_network or setup_container_network_shared; thr holds its  *)
(* program counter, its locals, the MutexGuards alive in its frames (held),    *)
(* the network namespace it is in (ns) and the steps it has carried out (log). *)
(* At most one fault is injected in a run.                                     *)

\* the fault sets a step may draw: none once a fault was injected
StepFaults(t, steps) == IF t.faulted THEN {{}} ELSE FaultSets(steps)

\* the next statement after each statement of setup_bridge_network with the port loop
\* moved before the move into the namespace
SbnNextPortsEarly(pc) ==
    CASE pc = "lock_networks" -> "allocate"
      [] pc = "allocate" -> "veth"
      [] pc = "veth" -> "attach"
      [] pc = "attach" -> "ports"
      [] pc = "ports" -> "move"
      [] pc = "move" -> "loopback"
      [] pc = "loopback" -> "rename"
      [] pc = "rename" -> "configure"
      [] pc = "configure" -> "route"
      [] pc = "route" -> "lock_cn"
      [] pc = "lock_cn" -> "insert"
      [] pc = "insert" -> "return"
\* the next statement after each statement of setup_bridge_network
SbnNext(pc) ==
    CASE pc = "lock_networks" -> "allocate"
      [] pc = "allocate" -> "veth"
      [] pc = "veth" -> "attach"
      [] pc = "attach" -> "move"
      [] pc = "move" -> "loopback"
      [] pc = "loopback" -> "rename"
      [] pc = "rename" -> "configure"
      [] pc = "configure" -> "route"
      [] pc = "route" -> "ports"
      [] pc = "ports" -> "lock_cn"
      [] pc = "lock_cn" -> "insert"
      [] pc = "insert" -> "return"

\* the statements that run a block through NetworkNamespace::enter
EnterSteps == {"loopback", "rename", "configure", "route"}

\* what one statement leaves: the thread, the maps and the host
ThreadResult(t, nw, cn, h) ==
    [thr |-> t, networks |-> nw, container_networks |-> cn, host |-> h]

\* the operation returns res: the guards of its frame are dropped
Return(t, res) == [t EXCEPT !.pc = "none", !.held = {}, !.ret = Some(res)]

\* statement s was carried out; `?` returns the Err when it was one
After(t, s, ok) ==
    LET t1 == [t EXCEPT !.log = Append(@, s)]
    IN  IF ok THEN [t1 EXCEPT !.pc = SbnNext(t.pc)] ELSE Return(t1, "err")

\* the commands and system calls of the next statement of enter a fault can hit
EnterFaultSteps(t) ==
    CASE t.enter = "none" -> {"open_self", "open_target"}
      [] t.enter = "opened" -> {"setns_in"}
      [] t.enter = "ran" -> {"setns_back"}
      [] t.enter = "inside" /\ t.pc = "loopback" -> {"lo_up"}
      [] t.enter = "inside" /\ t.pc = "rename" -> {"rename"}
      [] t.enter = "inside" /\ t.pc = "configure" -> {"addr_add", "link_up"}
      [] t.enter = "inside" /\ t.pc = "route" -> {"route_add"}

\* the callback of the enter call of statement t.pc, run in the namespace the thread
\* is in: the host after it and whether it returned Ok
Callback(t, h, F) ==
    CASE t.pc = "loopback" -> SetupLoopback(h, t.ns, F)
      [] t.pc = "rename" -> [h |-> RenameToEth0(h, t.id, t.ns, F),
                             ok |-> Cmd("rename", F, TRUE) # "spawn"]
      [] t.pc = "configure" -> ConfigureInterface(h, t.ns, t.ip[1], F)
      [] t.pc = "route" -> AddDefaultRoute(h, t.ns, F)

\* enter returns result to setup_bridge_network, which drops it for the rename block
\* and applies `?` to it otherwise; before is the namespace enter was called in, back
\* is what became of the setns to the saved handle ("none": not reached)
EnterReturns(t, before, result, back) ==
    LET e == [step |-> t.pc, before |-> before, after |-> t.ns, ran |-> t.block # "none",
              block |-> t.block, result |-> result, back |-> back]
        t1 == [t EXCEPT !.entered = Some(e), !.enter = "none", !.block = "none"]
    IN  After(t1, t.pc, result = "Ok" \/ t.pc = "rename")

\* enter that surfaces the block's result without the setns back
EnterNoRestore(t, h, F) ==
    CASE t.enter = "none" ->
            IF Cmd("open_self", F, TRUE) # "ok" \/ Cmd("open_target", F, t.tgt # "dead") # "ok"
            THEN [thr |-> EnterReturns(t, t.ns, "Err", "none"), host |-> h]
            ELSE [thr |-> [t EXCEPT !.enter = "opened", !.saved = t.ns], host |-> h]
      [] t.enter = "opened" ->
            IF Cmd("setns_in", F, TRUE) # "ok"
            THEN [thr |-> EnterReturns(t, t.saved, "Err", "none"), host |-> h]
            ELSE [thr |-> [t EXCEPT !.enter = "inside", !.ns = t.tgt], host |-> h]
      [] t.enter = "inside" ->
            LET c == Callback(t, h, F)
            IN  [thr |-> [t EXCEPT !.enter = "ran", !.block = IF c.ok THEN "Ok" ELSE "Err"],
                 host |-> c.h]
      [] t.enter = "ran" ->
            [thr |-> EnterReturns(t, t.saved, t.block, "none"), host |-> h]

\* NetworkNamespace::enter, statement by statement: open /proc/self/ns/net and
\* /proc/<pid>/ns/net; setns(container_ns); callback(); setns(current_ns); result
Enter(t, h, F) ==
    CASE t.enter = "none" ->
            IF Cmd("open_self", F, TRUE) # "ok" \/ Cmd("open_target", F, t.tgt # "dead") # "ok"
            THEN [thr |-> EnterReturns(t, t.ns, "Err", "none"), host |-> h]
            ELSE [thr |-> [t EXCEPT !.enter = "opened", !.saved = t.ns], host |-> h]
      [] t.enter = "opened" ->
            IF Cmd("setns_in", F, TRUE) # "ok"
            THEN [thr |-> EnterReturns(t, t.saved, "Err", "none"), host |-> h]
            ELSE [thr |-> [t EXCEPT !.enter = "inside", !.ns = t.tgt], host |-> h]
      [] t.enter = "inside" ->
            LET c == Callback(t, h, F)
            IN  [thr |-> [t EXCEPT !.enter = "ran", !.block = IF c.ok THEN "Ok" ELSE "Err"],
                 host |-> c.h]
      [] t.enter = "ran" ->
            IF Cmd("setns_back", F, TRUE) # "ok"
            THEN [thr |-> EnterReturns(t, t.saved, "Err", "failed"), host |-> h]
            ELSE LET t1 == [t EXCEPT !.ns = t.saved]
                 IN  [thr |-> EnterReturns(t1, t.saved, t.block, "ok"), host |-> h]

\* the commands of the next statement of setup_bridge_network a fault can hit
SbnFaultSteps(t) ==
    CASE t.pc \in EnterSteps -> EnterFaultSteps(t)
      [] t.pc = "veth" -> {"veth_add"}
      [] t.pc = "attach" -> {"attach_master", "attach_up"}
      [] t.pc = "move" -> {"move"}
      [] t.pc = "ports" /\ t.k <= Len(t.ports) ->
            {PortStep(n, t.k) : n \in {"pre_ins", "out_ins", "fwd_ins"}}
      [] OTHER -> {}

\* the entry setup_bridge_network inserts for the thread's container
BridgeEntry(t, nw) ==
    [mode |-> ModeBridge("bridge"), ip_address |-> t.ip, gateway |-> Some(nw["bridge"].gateway),
     veth_host |-> Some(t.id), veth_container |-> Some(t.id), ports |-> t.ports]

\* one statement of NetworkManager::setup_bridge_network(id, pid, "bridge", ports)
SbnStep(t, nw, cn, h, F) ==
    CASE t.pc = "lock_networks" ->
            ThreadResult([t EXCEPT !.held = @ \cup {"networks"}, !.pc = SbnNext(t.pc)],
                         nw, cn, h)
      [] t.pc = "allocate" ->
            LET a == Allocate(nw["bridge"].allocated, LiveOnHost(h))
                nw1 == [nw EXCEPT !["bridge"].allocated = a.allocated]
            IN  IF a.ip = None THEN ThreadResult(Return(t, "err"), nw1, cn, h)
                ELSE ThreadResult([t EXCEPT !.ip = a.ip, !.pc = SbnNext(t.pc)], nw1, cn, h)
      [] t.pc = "veth" ->
            LET v == CreateVethPair(h, t.id, F)
            IN  ThreadResult(After(t, "veth", v.ok), nw, cn, v.h)
      [] t.pc = "attach" ->
            LET v == AttachInterface(h, t.id, F)
            IN  ThreadResult(After(t, "attach", v.ok), nw, cn, v.h)
      [] t.pc = "move" ->
            LET v == MoveToNamespace(h, t.id, t.tgt, F)
            IN  ThreadResult(After(t, "move", v.ok), nw, cn, v.h)
      [] t.pc \in EnterSteps ->
            LET e == Enter(t, h, F)
            IN  ThreadResult(e.thr, nw, cn, e.host)
      [] t.pc = "ports" ->
            IF t.k > Len(t.ports)
            THEN ThreadResult([t EXCEPT !.pc = SbnNext(t.pc)], nw, cn, h)
            ELSE LET a == IF t.ns = "host"
                          THEN AddPortForward(h, t.ports[t.k], t.ip[1], t.k, F)
                          ELSE [h |-> h,
                                ok |-> /\ Cmd(PortStep("pre_ins", t.k), F, TRUE) # "spawn"
                                       /\ Cmd(PortStep("out_ins", t.k), F, TRUE) # "spawn"]
                     t1 == [t EXCEPT !.log = Append(@, "port_forward"), !.k = @ + 1]
                 IN  ThreadResult(IF a.ok THEN t1 ELSE Return(t1, "err"), nw, cn, a.h)
      [] t.pc = "lock_cn" ->
            ThreadResult([t EXCEPT !.held = @ \cup {"container_networks"},
                                   !.pc = SbnNext(t.pc)],
                         nw, cn, h)
      [] t.pc = "insert" ->
            ThreadResult([t EXCEPT !.held = @ \ {"container_networks"},
                                   !.log = Append(@, "record"), !.pc = SbnNext(t.pc)],
                         nw, MapPut(cn, t.id, BridgeEntry(t, nw)), h)
      [] t.pc = "return" -> ThreadResult(Return(t, "ok"), nw, cn, h)

\* NetworkManager::new on a clean host, every command succeeding; no call is under way
InitThread ==
    /\ AllocIdle
    /\ SupIdle
    /\ ParseIdle
    /\ ProcIdle
    /\ host = CreateNetwork(CleanHost, {}).h
    /\ mgr = "ready"
    /\ networks = MapPut(EmptyMap, "bridge", DefaultNetwork)
    /\ container_networks = EmptyMap
    /\ nops = 0
    /\ lastCall = Call("new", "", "ok", None)
    /\ thr = NoThread
    /\ locks = NoLocks

\* the state a statement leaves; a return counts as one more manager call made
ThreadApply(r, F) ==
    /\ thr' = [r.thr EXCEPT !.faulted = thr.faulted \/ F # {}]
    /\ host' = r.host
    /\ networks' = r.networks
    /\ container_networks' = r.container_networks
    /\ nops' = IF r.thr.pc = "none" THEN nops + 1 ELSE nops
    /\ lastCall' = IF r.thr.pc = "none"
                   THEN Call(thr.fn, thr.id, r.thr.ret[1],
                             IF thr.id \in DOMAIN r.container_networks
                             THEN r.container_networks[thr.id].ip_address ELSE None)
                   ELSE lastCall
    /\ mgr' = IF r.thr.pc = "none" /\ r.thr.ret = Some("panic") THEN "poisoned" ELSE mgr
    /\ UNCHANGED <<allocVars, procVars, supVars, parseVars, locks>>

\* a thread calls setup_bridge_network for container Id0
CallSetupBridge ==
    /\ thr.pc = "none"
    /\ mgr = "ready"
    /\ nops < MaxOps
    /\ \E ports \in PortLists, tgt \in {"dead", NsOf(Id0)} :
          thr' = [NoThread EXCEPT !.fn = "setup_bridge_network", !.pc = "lock_networks",
                                  !.id = Id0, !.ports = ports, !.tgt = tgt, !.k = 1,
                                  !.ns = thr.ns, !.faulted = thr.faulted]
    /\ UNCHANGED <<mgrVars, allocVars, procVars, supVars, parseVars, locks>>

\* the thread carries out its next statement of setup_bridge_network
SetupBridgeStep ==
    /\ thr.fn = "setup_bridge_network"
    /\ thr.pc # "none"
    /\ \E F \in StepFaults(thr, SbnFaultSteps(thr)) :
          ThreadApply(SbnStep(thr, networks, container_networks, host, F), F)

\* the commands of the next statement of cleanup_container_network a fault can hit
ClnFaultSteps(t) ==
    CASE t.pc = "ports" /\ t.k <= Len(t.entry[1].ports) ->
            {PortStep(n, t.k) : n \in {"pre_del", "out_del", "fwd_del"}}
      [] t.pc = "veth_del" -> {"veth_del"}
      [] OTHER -> {}

\* one statement of NetworkManager::cleanup_container_network(id); a command acts on
\* the host's rules and links when the thread is in the host's network namespace
ClnStep(t, nw, cn, h, F) ==
    CASE t.pc = "lock_cn" ->
            ThreadResult([t EXCEPT !.held = @ \cup {"container_networks"}, !.pc = "remove"],
                         nw, cn, h)
      [] t.pc = "remove" ->
            IF t.id \notin DOMAIN cn THEN ThreadResult([t EXCEPT !.pc = "return"], nw, cn, h)
            ELSE ThreadResult([t EXCEPT !.entry = Some(cn[t.id]), !.k = 1,
                                        !.pc = IF cn[t.id].mode[1] = "Bridge" THEN "ports"
                                               ELSE "return"],
                              nw, MapRemove(cn, t.id), h)
      [] t.pc = "ports" ->
            LET network == t.entry[1]
            IN  IF t.k > Len(network.ports)
                THEN ThreadResult([t EXCEPT !.pc = IF network.ip_address = None THEN "veth_del"
                                                   ELSE "lock_networks"],
                                  nw, cn, h)
                ELSE ThreadResult([t EXCEPT !.k = @ + 1, !.log = Append(@, "port_remove")],
                                  nw, cn,
                                  IF network.ip_address = None \/ t.ns # "host" THEN h
                                  ELSE RemovePortForward(h, network.ports[t.k],
                                                         network.ip_address[1], t.k, F).h)
      [] t.pc = "lock_networks" ->
            ThreadResult([t EXCEPT !.held = @ \cup {"networks"}, !.pc = "release"], nw, cn, h)
      [] t.pc = "release" ->
            LET network == t.entry[1]
            IN  ThreadResult([t EXCEPT !.held = @ \ {"networks"}, !.pc = "veth_del",
                                       !.log = Append(@, "release")],
                             IF network.mode[2] \in DOMAIN nw
                             THEN [nw EXCEPT ![network.mode[2]].allocated =
                                      Release(@, network.ip_address[1])]
                             ELSE nw,
                             cn, h)
      [] t.pc = "veth_del" ->
            LET network == t.entry[1]
            IN  ThreadResult([t EXCEPT !.pc = "return", !.log = Append(@, "veth_del")], nw, cn,
                             IF network.veth_host = None \/ t.ns # "host" THEN h
                             ELSE DeleteVeth(h, network.veth_host[1], F).h)
      [] t.pc = "return" -> ThreadResult(Return(t, "ok"), nw, cn, h)

\* one statement of NetworkManager::setup_container_network_shared(id, target)
SharedStep(t, nw, cn, h) ==
    CASE t.pc = "lock_cn" ->
            ThreadResult([t EXCEPT !.held = @ \cup {"container_networks"}, !.pc = "get"],
                         nw, cn, h)
      [] t.pc = "get" ->
            IF t.target \notin DOMAIN cn THEN ThreadResult(Return(t, "panic"), nw, cn, h)
            ELSE ThreadResult([t EXCEPT !.pc = "drop",
                                        !.entry = Some(NoNetwork(ModeContainer(t.target),
                                                                 cn[t.target].ip_address,
                                                                 cn[t.target].gateway))],
                              nw, cn, h)
      [] t.pc = "drop" ->
            ThreadResult([t EXCEPT !.held = @ \ {"container_networks"}, !.pc = "lock_again"],
                         nw, cn, h)
      [] t.pc = "lock_again" ->
            ThreadResult([t EXCEPT !.held = @ \cup {"container_networks"}, !.pc = "insert"],
                         nw, cn, h)
      [] t.pc = "insert" ->
            ThreadResult([t EXCEPT !.held = @ \ {"container_networks"}, !.pc = "return",
                                   !.log = Append(@, "record")],
                         nw, MapPut(cn, t.id, t.entry[1]), h)
      [] t.pc = "return" -> ThreadResult(Return(t, "ok"), nw, cn, h)

\* a thread calls cleanup_container_network for container Id0, or
\* setup_container_network_shared for container PeerId with target Id0
CallOther ==
    /\ thr.pc = "none"
    /\ mgr = "ready"
    /\ nops < MaxOps
    /\ \/ thr' = [NoThread EXCEPT !.fn = "cleanup_container_network", !.pc = "lock_cn",
                                  !.id = Id0, !.ns = thr.ns, !.faulted = thr.faulted]
       \/ thr' = [NoThread EXCEPT !.fn = "setup_container_network_shared", !.pc = "lock_cn",
                                  !.id = PeerId, !.target = Id0, !.ns = thr.ns,
                                  !.faulted = thr.faulted]
    /\ UNCHANGED <<mgrVars, allocVars, procVars, supVars, parseVars, locks>>

\* the thread carries out its next statement of cleanup_container_network
CleanupStep ==
    /\ thr.fn = "cleanup_container_network"
    /\ thr.pc # "none"
    /\ \E F \in StepFaults(thr, ClnFaultSteps(thr)) :
          ThreadApply(ClnStep(thr, networks, container_networks, host, F), F)

\* the thread carries out its next statement of setup_container_network_shared
SharedSetupStep ==
    /\ thr.fn = "setup_container_network_shared"
    /\ thr.pc # "none"
    /\ ThreadApply(SharedStep(thr, networks, container_networks, host), {})

NextThread ==
    \/ CallSetupBridge
    \/ SetupBridgeStep
    \/ CallOther
    \/ CleanupStep
    \/ SharedSetupStep

SpecThread == InitThread /\ [][NextThread]_vars

\* C26: within the NetworkManager no operation (setup_bridge_network,
\* cleanup_container_network, setup_container_network_shared) holds the networks mutex
\* and the container_networks mutex at the same time, so neither is held together with
\* the other across a call into the bridge / veth / iptables driver.
C26_MutexesNeverHeldTogether == ~({"networks", "container_networks"} \subseteq thr.held)

\* C27: within one container's bridge setup the steps are carried out in this order,
\* each after the one before it has completed: veth pair creation, attach of the host
\* end to the bridge, move of the peer into the child's netns, the in-namespace
\* configuration (loopback, rename to eth0, address and up, default route), the
\* port-forward installation; and the ContainerNetwork is recorded in the map only
\* after all of them, one port-forward installation per configured port included.
C27_BridgeSetupOrder ==
    thr.fn = "setup_bridge_network" =>
        LET Rank(s) == CASE s = "veth" -> 1 [] s = "attach" -> 2 [] s = "move" -> 3
                         [] s = "loopback" -> 4 [] s = "rename" -> 5 [] s = "configure" -> 6
                         [] s = "route" -> 7 [] s = "port_forward" -> 8 [] s = "record" -> 9
            log == thr.log
            Count(s) == Cardinality({i \in 1 .. Len(log) : log[i] = s})
        IN  /\ \A i, j \in 1 .. Len(log) :
                  i < j => /\ Rank(log[i]) <= Rank(log[j])
                           /\ Rank(log[i]) = Rank(log[j]) => log[i] = "port_forward"
            /\ \A i \in 1 .. Len(log) :
                  \A r \in 1 .. 7 : r < Rank(log[i]) => \E j \in 1 .. i : Rank(log[j]) = r
            /\ Count("record") = 1 => Count("port_forward") = Len(thr.ports)
            /\ nops = 0 => (thr.id \in DOMAIN container_networks <=> Count("record") = 1)

\* C27 witness: a bridge setup with two ports has returned Ok with every step logged
C27_Witness ==
    /\ thr.fn = "setup_bridge_network"
    /\ thr.ret = Some("ok")
    /\ Len(thr.ports) = 2
    /\ thr.log = <<"veth", "attach", "move", "loopback", "rename", "configure", "route",
                   "port_forward", "port_forward", "record">>
    /\ Id0 \in DOMAIN container_networks

\* C28 as stated: after enter returns, whether the block returned Ok or Err, the
\* calling process is in the namespace it was in before the call and the value
\* returned is the block's result; if opening the save handle or the target fails the
\* block is not run and the namespace is unchanged.
C28_EnterAlwaysRestores ==
    thr.entered # None =>
        LET e == thr.entered[1]
        IN  /\ e.after = e.before
            /\ e.ran => e.result = e.block
            /\ e.back = "none" => ~e.ran

\* C28, amended: enter calls setns back to the saved handle whenever the block was
\* run, whatever the block returned.  When that setns succeeds the process is back in
\* the namespace it was in before the call and the value returned is the block's
\* result; when it fails, enter returns an Err in place of the block's result and the
\* process stays in the target namespace.  If opening the save handle or the target,
\* or the setns into the target, fails, the block is not run, enter returns an Err and
\* the namespace is unchanged.
C28_EnterRestoresUnlessSetnsFails ==
    thr.entered # None =>
        LET e == thr.entered[1]
        IN  /\ e.ran <=> e.back # "none"
            /\ e.back = "ok" => (e.after = e.before /\ e.result = e.block)
            /\ e.back = "failed" => (e.after = thr.tgt /\ e.result = "Err")
            /\ ~e.ran => (e.after = e.before /\ e.result = "Err")

\* C28 witness: the block of configure_interface returned Err (the command could not
\* be spawned), the setns back succeeded, and enter returned the block's Err with the
\* process back in the host's namespace
C28_Witness ==
    /\ thr.entered # None
    /\ thr.entered[1].step = "configure"
    /\ thr.entered[1].block = "Err"
    /\ thr.entered[1].back = "ok"
    /\ thr.entered[1].result = "Err"
    /\ thr.ns = "host"
    /\ thr.ret = Some("err")

\* ---------------------------------------------------------------------------------
\* The order of the child's steps

\* the place of a step in the sequence the lifecycle is said to follow
LifecycleRank(step) ==
    CASE step = "cgroup" -> 1
      [] step = "volumes_prepare" -> 2
      [] step = "unshare_namespaces" -> 3
      [] step = "barrier" -> 4
      [] step = "enter_pid_namespace" -> 5
      [] step = "set_hostname" -> 6
      [] step = "setup_container_filesystem" -> 7
      [] step = "setup_fs" -> 8
      [] step = "exec" -> 9

\* C29: the steps the child has carried out follow the order cgroup setup, volume
\* preparation, unshare_namespaces, the barrier, enter_pid_namespace, set_hostname,
\* setup_container_filesystem (pivot), the bind-mount of the volumes (setup_fs),
\* payload exec; no setup_fs comes before unshare_namespaces or before the pivot, and
\* prepared volumes are bound before the payload is exec'd
C29_LifecycleLinearVolumesBoundInside ==
    LET log == trace.log
        At(step) == {i \in DOMAIN log : log[i] = step}
    IN  /\ \A i, j \in DOMAIN log : i < j => LifecycleRank(log[i]) < LifecycleRank(log[j])
        /\ \A i \in At("setup_fs") :
              /\ \E j \in At("unshare_namespaces") : j < i
              /\ \E j \in At("setup_container_filesystem") : j < i
        /\ (At("exec") # {} /\ At("volumes_prepare") # {}) => At("setup_fs") # {}

\* ---------------------------------------------------------------------------------
\* A second run of the network setup

\* how many times rule r is in a chain
RuleCount(chain, r) == Cardinality({i \in DOMAIN chain : chain[i] = r})

\* C30: create_network for the default network, run again on the host the first run
\* left (as a later invocation of the runtime does, every command succeeding),
\* returns Ok and leaves the bridge and every iptables chain as they were: no rule
\* is present more times than after one run
C30_CreateNetworkIdempotent ==
    (lastCall.op = "new" /\ lastCall.result = "ok") =>
        LET again == CreateNetwork(host, {})
        IN  /\ again.res = "ok"
            /\ again.h.bridge = host.bridge
            /\ again.h.sysctl = host.sysctl
            /\ \A chain \in DOMAIN host.ipt :
                  \A i \in DOMAIN again.h.ipt[chain] :
                      LET r == again.h.ipt[chain][i]
                      IN  RuleCount(again.h.ipt[chain], r) <= RuleCount(host.ipt[chain], r)

\* ---------------------------------------------------------------------------------
\* Non-zero exits at the driver

\* the commands of a bridge setup for which the driver tolerates no failure: the
\* `ip addr add` of configure_interface (which tolerates "File exists") and the
\* OUTPUT and FORWARD inserts of add_port_forward (best effort) are left out
StrictSteps(ports) ==
    {"veth_add", "attach_master", "attach_up", "move", "rename", "link_up", "route_add"}
    \cup {PortStep("pre_ins", k) : k \in 1 .. Len(ports)}

\* C31: when the command behind create_veth_pair, move_to_namespace, attach_interface,
\* the eth0 rename, configure_interface, add_default_route or the PREROUTING insert of
\* add_port_forward exits with a non-zero status, setup_container_network in bridge
\* mode returns an error
C31_NonZeroExitIsAnError ==
    \A id \in Ids, ports \in PortLists :
        \A s \in StrictSteps(ports) :
            SetupContainerNetwork(networks, container_networks, host, id, NsOf(id),
                                  ModeBridge("bridge"), ports, LiveOnHost(host),
                                  {<<s, "nonzero">>}).res = "err"

\* ---------------------------------------------------------------------------------
\* Container{peer-id} mode

\* C32: setup_container_network with mode Container{peer}: when the peer is not in the
\* container map the call returns an error value, the map is unchanged and the
\* manager's mutexes stay usable (no panic while a guard is held); when the peer is in
\* the map the call returns Ok and records, for the container, the peer's ip and
\* gateway with no veth names and no ports
C32_SharedModeErrorsAreValues ==
    \A id \in Ids, peer \in Ids :
        LET r == SetupContainerNetwork(networks, container_networks, host, id, NsOf(id),
                                       ModeContainer(peer), <<>>, {}, {})
        IN  IF peer \in DOMAIN container_networks
            THEN /\ r.res = "ok"
                 /\ id \in DOMAIN r.container_networks
                 /\ r.container_networks[id] =
                       [mode |-> ModeContainer(peer),
                        ip_address |-> container_networks[peer].ip_address,
                        gateway |-> container_networks[peer].gateway,
                        veth_host |-> None, veth_container |-> None, ports |-> <<>>]
            ELSE /\ r.res = "err"
                 /\ r.container_networks = container_networks

\* ---------------------------------------------------------------------------------
\* openpty failures

\* C33: an openpty failure never fails the run: execute_container_command never
\* returns the error of a failed openpty, and a run whose openpty failed, at the probe
\* or in execute_with_pty, goes on through the non-PTY path
C33_OpenptyFailureFallsBack ==
    sup.ret # None => sup.ret[1].why # "openpty"

\* ---------------------------------------------------------------------------------
\* ImplVolume::cleanup_volume, one iteration of its loop at a time.  The variable
\* `call` holds the call: input is self.volumes, i the position the reversed iterator
\* is at, dirs the source directories that exist, mounts the destinations that are
\* mount points, visited what each iteration did.

MaxVolumes == 2

\* VolumeMount values: two anonymous ones (a source under <tmp>/CoreRun, made by
\* create_anonymous_volume) and two with a source the user named
VolumeMounts ==
    {[source |-> "/tmp/CoreRun/vol_1", dest |-> "/data", is_anonymous |-> TRUE],
     [source |-> "/tmp/CoreRun/vol_2", dest |-> "/cache", is_anonymous |-> TRUE],
     [source |-> "/srv/a", dest |-> "/a", is_anonymous |-> FALSE],
     [source |-> "/srv/b", dest |-> "/b", is_anonymous |-> FALSE]}

\* self.volumes: up to MaxVolumes volumes with different destinations
VolumeLists ==
    UNION {{vs \in [1 .. n -> VolumeMounts] : \A i, j \in 1 .. n : i # j => vs[i] # vs[j]} :
              n \in 0 .. MaxVolumes}

Sources(vs) == {vs[i].source : i \in DOMAIN vs}
Dests(vs) == {vs[i].dest : i \in DOMAIN vs}

\* unmount_volume: umount2(container_dest, MNT_DETACH) when the destination exists;
\* u is what the system call does ("absent": the destination does not exist)
UnmountVolume(volume, mounts, u) ==
    [mounts |-> IF u = "ok" THEN mounts \ {volume.dest} ELSE mounts,
     ok |-> u # "fail"]

\* cleanup_anonymous_volume that removes the source of every volume
CleanupAnyVolume(mount, dirs, rm_ok) ==
    IF mount.source \in dirs /\ rm_ok THEN dirs \ {mount.source} ELSE dirs

\* VolumeManager::cleanup_anonymous_volume: remove_dir_all(source) when the volume is
\* anonymous and the source exists; a failure is logged; Ok(()) in every case
CleanupAnonymousVolume(mount, dirs, rm_ok) ==
    IF mount.is_anonymous /\ mount.source \in dirs /\ rm_ok
    THEN dirs \ {mount.source}
    ELSE dirs

\* the call, before its first iteration: the sources exist (setup_volume made them or
\* found them), the destinations are mounted or not (the result of setup_fs was
\* dropped)
InitVolume ==
    /\ AllocIdle
    /\ MgrIdle
    /\ ProcIdle
    /\ SupIdle
    /\ StepIdle
    /\ host = CleanHost
    /\ \E vs \in VolumeLists :
          \E ms \in SUBSET Dests(vs) :
             call = [fn |-> "cleanup_volume", input |-> vs, out |-> None, i |-> Len(vs),
                     dirs |-> Sources(vs), mounts |-> ms, visited |-> <<>>]

\* for volume in self.volumes.iter().rev() { unmount_volume (an Err is logged);
\* sleep; cleanup_anonymous_volume(volume)? }
CleanupVolumeStep ==
    /\ call.fn = "cleanup_volume"
    /\ call.out = None
    /\ call.i >= 1
    /\ \E u \in {"absent", "ok", "fail"}, rm_ok \in BOOLEAN :
          LET volume == call.input[call.i]
              un == UnmountVolume(volume, call.mounts, u)
              dirs == CleanupAnonymousVolume(volume, call.dirs, rm_ok)
          IN  /\ u = "ok" => volume.dest \in call.mounts
              /\ call' = [call EXCEPT !.i = @ - 1,
                                      !.mounts = un.mounts,
                                      !.dirs = dirs,
                                      !.visited = Append(@, [volume |-> volume,
                                                             unmounted |-> un.ok])]
    /\ UNCHANGED <<mgrVars, allocVars, procVars, supVars, stepVars>>

\* the iterator is exhausted: Ok(())
CleanupVolumeReturn ==
    /\ call.fn = "cleanup_volume"
    /\ call.out = None
    /\ call.i = 0
    /\ call' = [call EXCEPT !.out = Some("Ok")]
    /\ UNCHANGED <<mgrVars, allocVars, procVars, supVars, stepVars>>

NextVolume ==
    \/ CleanupVolumeStep
    \/ CleanupVolumeReturn

SpecVolume == InitVolume /\ [][NextVolume]_vars

SetupAfterUnshare ==
    (config.mode[1] = "Bridge" /\ trace.setup = "none" /\ trace'.setup = "ok") =>
        /\ \E i \in DOMAIN trace.log : trace.log[i] = "unshare_namespaces"
        /\ child.ns = NsOf(Id0)

\* C35: under every interleaving of parent and child after the fork, the child's
\* unshare_namespaces has completed before the parent moves the veth peer into, or
\* enters, the namespace named by /proc/<child_pid>/ns/net
C35_SetupOnChildsNewNamespace == [][SetupAfterUnshare]_vars

\* ---------------------------------------------------------------------------------
\* Threads calling into the network path.  Every call goes through a wrapper of
\* setup_container_network.rs, which locks the global NETWORK_MANAGER first; the
\* manager's operations then lock `networks` and `container_networks`.  The variable
\* `locks` holds the owner of each mutex, the poisoned mutexes, each thread's position
\* and the ids in the container map.

Threads == {"t1", "t2"}
MaxCalls == 2
Mutexes == {"NETWORK_MANAGER", "networks", "container_networks"}

\* the operations a thread calls: setup_container_network_parent in bridge mode and
\* in Container{Id0} mode, and the cleanup wrapper
LockOps == {"setup_bridge_network", "setup_container_network_shared",
            "cleanup_container_network"}

\* a wrapper that calls the manager without locking NETWORK_MANAGER
FirstPcInner(fn) ==
    IF fn = "setup_bridge_network" THEN "lock_networks" ELSE "lock_cn"

\* the first statement of both wrappers: NETWORK_MANAGER.lock().unwrap()
FirstPc(fn) == "lock_global"

\* the mutex a lock statement asks for
Wanted(pc) ==
    CASE pc = "lock_global" -> "NETWORK_MANAGER"
      [] pc = "lock_networks" -> "networks"
      [] pc \in {"lock_cn", "lock_again"} -> "container_networks"

LockPcs == {"lock_global", "lock_networks", "lock_cn", "lock_again"}

\* the statement after a lock statement that got its guard
AfterLock(fn, pc) ==
    CASE pc = "lock_global" -> FirstPcInner(fn)
      [] pc = "lock_networks" /\ fn = "setup_bridge_network" -> "driver"
      [] pc = "lock_networks" /\ fn = "cleanup_container_network" -> "release"
      [] pc = "lock_cn" /\ fn = "setup_bridge_network" -> "insert"
      [] pc = "lock_cn" /\ fn = "setup_container_network_shared" -> "get"
      [] pc = "lock_cn" /\ fn = "cleanup_container_network" -> "remove"
      [] pc = "lock_again" -> "insert"

\* a panic unwinds the thread: every guard it holds is dropped and its mutex poisoned
Panic(l, t) ==
    [l EXCEPT !.owner = [m \in Mutexes |-> IF m \in l.thread[t].held THEN None ELSE @[m]],
              !.poisoned = @ \cup l.thread[t].held,
              !.thread[t] = [@ EXCEPT !.pc = "panicked", !.held = {}]]

\* `.lock().unwrap()`: the guard, or a panic when the mutex is poisoned
Lock(l, t) ==
    LET th == l.thread[t]
        m == Wanted(th.pc)
        got == [l EXCEPT !.owner[m] = Some(t),
                         !.thread[t] = [th EXCEPT !.held = @ \cup {m},
                                                  !.pc = AfterLock(th.fn, th.pc)]]
    IN  IF m \in l.poisoned THEN Panic([got EXCEPT !.thread[t].pc = th.pc], t) ELSE got

\* a guard goes out of scope (or is dropped)
Unlock(l, t, ms) ==
    [l EXCEPT !.owner = [m \in Mutexes |-> IF m \in ms /\ @[m] = Some(t) THEN None ELSE @[m]],
              !.thread[t].held = @ \ ms]

\* the operation and its wrapper return: the guards of both frames are dropped
LockReturn(l, t) ==
    LET l1 == Unlock(l, t, Mutexes)
    IN  [l1 EXCEPT !.thread[t] = [@ EXCEPT !.pc = "idle", !.calls = @ + 1]]

\* the next statement of thread t that is not a lock statement; ok: the driver calls
\* of the statement returned Ok
LockBody(l, t, ok) ==
    LET th == l.thread[t]
        Goto(pc) == [l EXCEPT !.thread[t].pc = pc]
    IN  CASE th.pc = "return" -> LockReturn(l, t)
          [] th.fn = "setup_bridge_network" /\ th.pc = "driver" ->
                Goto(IF ok THEN "lock_cn" ELSE "return")
          [] th.fn = "setup_bridge_network" /\ th.pc = "insert" ->
                [Unlock(l, t, {"container_networks"}) EXCEPT
                    !.entries = @ \cup {Id0}, !.thread[t].pc = "return"]
          [] th.fn = "setup_container_network_shared" /\ th.pc = "get" ->
                IF Id0 \in l.entries THEN Goto("drop") ELSE Panic(l, t)
          [] th.fn = "setup_container_network_shared" /\ th.pc = "drop" ->
                [Unlock(l, t, {"container_networks"}) EXCEPT !.thread[t].pc = "lock_again"]
          [] th.fn = "setup_container_network_shared" /\ th.pc = "insert" ->
                [Unlock(l, t, {"container_networks"}) EXCEPT
                    !.entries = @ \cup {PeerId}, !.thread[t].pc = "return"]
          [] th.fn = "cleanup_container_network" /\ th.pc = "remove" ->
                IF Id0 \in l.entries
                THEN [l EXCEPT !.entries = @ \ {Id0}, !.thread[t].pc = "ports"]
                ELSE Goto("return")
          [] th.fn = "cleanup_container_network" /\ th.pc = "ports" -> Goto("lock_networks")
          [] th.fn = "cleanup_container_network" /\ th.pc = "release" ->
                [Unlock(l, t, {"networks"}) EXCEPT !.thread[t].pc = "veth_del"]
          [] th.fn = "cleanup_container_network" /\ th.pc = "veth_del" -> Goto("return")

InitLocks ==
    /\ AllocIdle
    /\ MgrIdle
    /\ ProcIdle
    /\ SupIdle
    /\ ParseIdle
    /\ host = CleanHost
    /\ thr = NoThread
    /\ locks = [owner |-> [m \in Mutexes |-> None], poisoned |-> {}, entries |-> {},
                thread |-> [t \in Threads |->
                               [fn |-> "none", pc |-> "idle", held |-> {}, calls |-> 0]]]

\* thread t calls a wrapper
LockCall(t) ==
    /\ locks.thread[t].pc = "idle"
    /\ locks.thread[t].calls < MaxCalls
    /\ \E fn \in LockOps :
          locks' = [locks EXCEPT !.thread[t] = [@ EXCEPT !.fn = fn, !.pc = FirstPc(fn)]]
    /\ UNCHANGED <<mgrVars, allocVars, procVars, supVars, parseVars, thr>>

\* thread t carries out its next statement; a lock statement waits for the mutex
LockStep(t) ==
    /\ locks.thread[t].pc \notin {"idle", "panicked"}
    /\ IF locks.thread[t].pc \in LockPcs
       THEN /\ locks.owner[Wanted(locks.thread[t].pc)] = None
            /\ locks' = Lock(locks, t)
       ELSE \E ok \in BOOLEAN : locks' = LockBody(locks, t, ok)
    /\ UNCHANGED <<mgrVars, allocVars, procVars, supVars, parseVars, thr>>

NextLocks ==
    \E t \in Threads :
        \/ LockCall(t)
        \/ LockStep(t)

\* a thread that is inside a call keeps being scheduled, and the external commands
\* of its driver calls terminate
SpecLocks == InitLocks /\ [][NextLocks]_vars /\ \A t \in Threads : WF_vars(LockStep(t))

\* no thread is waiting at a lock statement for `networks` or `container_networks`
NoInnerWait ==
    \A t \in Threads :
        locks.thread[t].pc \in LockPcs \ {"lock_global"} =>
            locks.owner[Wanted(locks.thread[t].pc)] = None

\* C36: the network path cannot deadlock: every call enters through NETWORK_MANAGER,
\* so no operation ever waits at one of the manager's inner locks, and a thread that
\* holds a lock eventually holds none
C36_NoDeadlockInNetworkPath ==
    /\ []NoInnerWait
    /\ \A t \in Threads : (locks.thread[t].held # {}) ~> (locks.thread[t].held = {})

\* C36 witness: t1 is inside setup_bridge_network holding `networks` and about to
\* lock `container_networks` while t2 has called the cleanup wrapper, which takes
\* the two in the opposite order, and waits for NETWORK_MANAGER
C36_Witness ==
    /\ locks.thread["t1"].fn = "setup_bridge_network"
    /\ locks.thread["t1"].pc = "lock_cn"
    /\ locks.thread["t1"].held = {"NETWORK_MANAGER", "networks"}
    /\ locks.thread["t2"].fn = "cleanup_container_network"
    /\ locks.thread["t2"].pc = "lock_global"
    /\ Id0 \in locks.entries

\* ---------------------------------------------------------------------------------
\* The child's read at the barrier

\* the parent's steps between its network setup and the close of its write end;
\* none of them waits for anything
ParentAfterSetup ==
    \/ ParentFailClose
    \/ ParentFailKill
    \/ ParentWrite
    \/ ParentCloseWrite

\* the run with its processes scheduled: the parent goes on after its network setup
\* has returned, and a read that can return does
SpecLive == Init /\ [][Next]_vars /\ WF_vars(ParentAfterSetup) /\ WF_vars(ChildRead)

\* C37: assuming the parent's external commands terminate (its sleep and its network
\* setup come to an end), the child's blocking read on the sync pipe always eventually
\* returns, or the child is killed: it never stays at the barrier forever
C37_ReadEventuallyReturns ==
    \/ <>[](parent.pc \in {"sleep", "setup"})
    \/ (child.pc = "read") ~> (child.pc # "read")

\* C37 witness: the parent ended without writing the byte (the network manager's
\* initialisation panicked) and the child's read returned at end-of-file
C37_Witness ==
    /\ child.pc = "pidns"
    /\ "barrier" = trace.log[Len(trace.log)]
    /\ ~trace.byteWritten
    /\ parent.pc = "done"
    /\ parent.exit = Some(101)

\* C38: the tracked CHILD_PID is 0 or the pid of a payload that was forked and
\* is not yet reaped, and no signal the handler forwarded went to a pid whose
\* payload had been reaped by then.
C38_ChildPidIsLivePayload ==
    /\ CHILD_PID # 0 => payload.state \in {"running", "zombie"}
    /\ \A i \in 1..Len(sigLog) :
           sigLog[i].sent => sigLog[i].state \in {"running", "zombie"}

\* ---------------------------------------------------------------------------------
\* Failure atomicity of the bridge setup

\* C39: when setup_bridge_network returns an error, whichever command failed to
\* start, the container map is the one before the call and the allocator's set
\* holds no address beyond those before the call and those the scan found
\* answering (the address allocate chose is not left in the set)
C39_FailedSetupLeavesManagerUnchanged ==
    \A id \in Ids, ports \in PortLists :
        \A F \in FaultSets(BridgeSteps(ports)) :
            LET r == SetupContainerNetwork(networks, container_networks, host, id, NsOf(id),
                                           ModeBridge("bridge"), ports, LiveOnHost(host), F)
            IN  r.res = "err" =>
                    /\ r.container_networks = container_networks
                    /\ r.networks["bridge"].allocated \subseteq
                           ScanExistingIps(networks["bridge"].allocated, LiveOnHost(host))

\* ---------------------------------------------------------------------------------
\* Pool exhaustion

\* C40: whatever set the allocator holds and whichever addresses answer the scan,
\* allocate returns the error "No available IPs in subnet" exactly when every
\* address from position 2 to the last one of the range is in the set once the
\* answering candidates were inserted, and then the set holds nothing beyond those;
\* otherwise it returns an address, and that address lies inside the subnet. After
\* a call that returned the error the set holds every such address.
C40_PoolExhaustion ==
    /\ \A live \in SUBSET Positions :
           LET r == Allocate(alloc, live)
               atSelection == alloc \cup (live \cap ScanCandidates)
               candidates == {p \in Positions : p >= SkipCount}
           IN  /\ r.ip = None <=> candidates \subseteq atSelection
               /\ r.ip = None => r.allocated = atSelection
               /\ r.ip # None => r.ip[1] \in Positions
    /\ lastRet = [op |-> "allocate", ip |-> None] =>
           \A p \in Positions : p >= SkipCount => p \in alloc

\* C40 witness: allocate has returned the error with a pool in which address 2 is
\* held by a caller and the last address was never handed out: it answered a scan
C40_Witness ==
    /\ lastRet = [op |-> "allocate", ip |-> None]
    /\ outstanding[2] = 1
    /\ outstanding[SubnetSize - 1] = 0
    /\ \A p \in Positions : p >= SkipCount => p \in alloc

====
